---- MODULE Spec2Model ----
(***************************************************************************)
(* A model of pm-cli's orchestration layer: batch message operations over  *)
(* an IMAP session, outgoing message composition over an SMTP session,     *)
(* attachment enumeration over a MIME body structure, body resolution and  *)
(* search-criteria construction.                                           *)
(*                                                                         *)
(* Strings whose characters the code inspects (message ids, size strings)  *)
(* are sequences of one-character strings.  Each subsystem has its own     *)
(* specification (SpecBatch, SpecSend, SpecMime, SpecBody, SpecSearch);    *)
(* the variables of the other subsystems stay at their idle values.        *)
(***************************************************************************)
EXTENDS Integers, Sequences, FiniteSets, TLC

VARIABLES
    \* --- batch operations over an IMAP session (internal/imap/client.go)
    ids,        \* the explicit id list handed to the operation
    bOp,        \* which operation ran: "none", "delete", "move", "flag"
    bArgs,      \* its other arguments (permanent / read, unread, star, unstar)
    log,        \* protocol commands issued on the session, in order
    mbox,       \* the selected mailbox: sequence of [uid, flags]
    dest,       \* uids copied to the destination mailbox
    bResult,    \* "none", "ok", "invalid" (invalid message ID), "error" (protocol)
    \* --- sending over an SMTP session (internal/smtp)
    sMsg,       \* the outgoing message
    smtpLog,    \* SMTP steps issued, in order
    dataStream, \* chunks written to the DATA stream
    dataClosed, \* the DATA stream was completed (final dot sent)
    sResult,    \* "none", "ok", "error"
    \* --- attachments of one fetched message
    bs,         \* the message's MIME tree (body structure and raw parts alike)
    mOp,        \* "none", "listed", "fetched", "saved"
    listing,    \* result of GetAttachments
    dlIndex,    \* the index asked of the download
    dl,         \* result of Client.DownloadAttachment
    cliDl,      \* result of MailDownloadCmd.Run
    \* --- body resolution
    rawMsg,     \* the fetched raw message, as the MIME reader sees it
    body,       \* [done, text, html]: result of parseMessageBody
    \* --- search
    flags,      \* the command-line flags of mail search
    opts,       \* the SearchOptions built from them
    criteria,   \* the criteria tree built from opts
    sRes,       \* "none", "ok", "error" (the server refused select or search)
    \* --- composition, byte by byte (internal/smtp writeMessage, encodeSubject)
    cMsg,       \* the message to compose: [Subject, Body, Attachments]
    cOut,       \* [done, err, stream]: what writeMessage wrote
    cRes,       \* [done, text, html]: the composed stream resolved back
    \* --- HTML to text (internal/cli/mail.go htmlToText)
    hIn,        \* the HTML handed to the converter, character by character
    hStep,      \* how many times the converter ran: 0, 1, 2
    hOnce,      \* htmlToText(hIn)
    hTwice,     \* htmlToText(hOnce)
    \* --- idempotency keys (internal/config/config.go)
    now,        \* time.Now().Unix()
    ticks,      \* how often the clock was moved
    idemFile,   \* idempotency.json: [state, keys]
    lastCheck,  \* the last CheckIdempotencyKey: [done, key, at, recorded, used]
    recordedAt, \* when each key was last recorded, -1 if never
    sends,      \* invocations of mail send: [key, at, handed, res]
    \* --- one invocation after another on the same mailbox
    prevMbox,   \* the mailbox as the running invocation found it
    nOps,       \* invocations so far
    \* --- the text of --query (internal/cli/mail.go parseQueryString)
    query,      \* the --query argument, character by character
    \* --- processes sharing the idempotency ledger
    procs,      \* per process: [pc, key, used, clean, keys]
    \* --- the IMAP session of one command invocation
    conn,       \* [cmd, pc, opened, open, closed, res]
    \* --- config doctor
    doctor,     \* [done, env, checks, dialed, err]
    \* --- NewContext
    ctx,        \* [done, globals, file, err, config]
    \* --- the contact store
    book        \* [contacts, op, arg, err, before]

batchVars  == <<ids, bOp, bArgs, log, mbox, dest, bResult>>
sendVars   == <<sMsg, smtpLog, dataStream, dataClosed, sResult>>
mimeVars   == <<bs, mOp, listing, dlIndex, dl, cliDl>>
bodyVars   == <<rawMsg, body>>
searchVars == <<flags, opts, criteria, sRes>>
composeVars == <<cMsg, cOut, cRes>>
coreVars == <<batchVars, sendVars, mimeVars, bodyVars, searchVars>>
htmlVars == <<hIn, hStep, hOnce, hTwice>>
idemVars == <<now, ticks, idemFile, lastCheck, recordedAt, sends>>
seqVars == <<prevMbox, nOps>>
queryVars == <<query>>
lateVars == <<queryVars, procs, conn, doctor, ctx, book>>
extVars == <<composeVars, htmlVars, idemVars, seqVars, lateVars>>
vars == <<coreVars, extVars>>

\* ------------------------------------------------------------------------
\* Generic helpers
\* ------------------------------------------------------------------------

\* Sequences over S of length lo..hi.
SeqsOf(S, lo, hi) == UNION {[1..n -> S] : n \in lo..hi}

Range(s) == {s[i] : i \in 1..Len(s)}

\* ------------------------------------------------------------------------
\* fmt.Sscanf(s, "%d", &v): leading spaces are skipped, then (signed targets
\* only) one sign, then the longest run of decimal digits; whatever follows
\* the digits is left unread and is no error.  No digit: error, v untouched.
\* ------------------------------------------------------------------------

Digits == {"0", "1", "2", "3", "4", "5", "6", "7", "8", "9"}

DigitVal(c) ==
    CASE c = "0" -> 0 [] c = "1" -> 1 [] c = "2" -> 2 [] c = "3" -> 3
      [] c = "4" -> 4 [] c = "5" -> 5 [] c = "6" -> 6 [] c = "7" -> 7
      [] c = "8" -> 8 [] c = "9" -> 9

DigitChar == <<"1", "2", "3", "4", "5", "6", "7", "8", "9">>

RECURSIVE SkipSpace(_, _)
SkipSpace(s, i) ==
    IF i <= Len(s) /\ s[i] = " " THEN SkipSpace(s, i + 1) ELSE i

\* The digits of s from position i on: [n |-> how many, val |-> their value].
RECURSIVE ScanNumber(_, _, _, _)
ScanNumber(s, i, n, acc) ==
    IF i <= Len(s) /\ s[i] \in Digits
    THEN ScanNumber(s, i + 1, n + 1, acc * 10 + DigitVal(s[i]))
    ELSE [n |-> n, val |-> acc]

\* The inputs of this model have at most a few digits: the overflow errors of
\* the uint32 and int64 targets are out of their reach and are not modelled.
\* Target uint32 (message ids): no sign is accepted.
SscanUint32(s) ==
    LET tok == ScanNumber(s, SkipSpace(s, 1), 0, 0)
    IN  IF tok.n = 0
        THEN [ok |-> FALSE, val |-> 0]
        ELSE [ok |-> TRUE, val |-> tok.val]

\* Target int64 (sizes): one leading "+" or "-" is accepted.
SscanInt64(s) ==
    LET i == SkipSpace(s, 1)
        signed == i <= Len(s) /\ s[i] \in {"+", "-"}
        neg == signed /\ s[i] = "-"
        tok == ScanNumber(s, IF signed THEN i + 1 ELSE i, 0, 0)
    IN  IF tok.n = 0
        THEN [ok |-> FALSE, val |-> 0]
        ELSE [ok |-> TRUE, val |-> IF neg THEN 0 - tok.val ELSE tok.val]

\* ------------------------------------------------------------------------
\* Batch operations: DeleteMessages, MoveMessages, SetFlagsMultiple
\* ------------------------------------------------------------------------

NumMsgs == 2    \* messages in the selected mailbox
MaxIds == 3     \* longest explicit id list

\* Ids naming a message of the mailbox, and ids that are no non-negative integer.
GoodIdStrings == {<<DigitChar[n]>> : n \in 1..NumMsgs}
BadIdStrings == {<<"x">>, <<"1", "x">>, <<"-", "1">>, << >>}
IdStrings == GoodIdStrings \cup BadIdStrings
IdLists == SeqsOf(IdStrings, 1, MaxIds)

InitMbox == [i \in 1..NumMsgs |-> [uid |-> i, flags |-> {}]]

\* The effect of the protocol commands on the server's mailboxes.
StoreFlags(mb, set, op, flag) ==
    [i \in 1..Len(mb) |->
        IF i \in set
        THEN [mb[i] EXCEPT !.flags = IF op = "+" THEN @ \cup {flag} ELSE @ \ {flag}]
        ELSE mb[i]]

NotDeleted(m) == "Deleted" \notin m.flags
Expunge(mb) == SelectSeq(mb, NotDeleted)

CopyTo(d, mb, set) == d \cup {mb[i].uid : i \in set \cap (1..Len(mb))}

\* The session after one more command; the failAt-th command of the call fails
\* (0: none does) and a failed command changes nothing on the server.
Issue(st, cmd, set, arg, failAt) ==
    LET ok == Len(st.log) + 1 # failAt
        entry == [cmd |-> cmd, set |-> set, arg |-> arg, ok |-> ok]
    IN  [log |-> Append(st.log, entry),
         mbox |-> IF ~ok THEN st.mbox
                  ELSE IF cmd = "store" THEN StoreFlags(st.mbox, set, arg[1], arg[2])
                  ELSE IF cmd = "expunge" THEN Expunge(st.mbox)
                  ELSE st.mbox,
         dest |-> IF ok /\ cmd = "copy" THEN CopyTo(st.dest, st.mbox, set) ELSE st.dest,
         res |-> IF ok THEN "ok" ELSE "error"]

SelectMailbox(st, failAt) == Issue(st, "select", {}, <<"", "">>, failAt)

\* The for loop of DeleteMessages from id i on: parse one id, store it, go on.
RECURSIVE DeleteLoop(_, _, _, _)
DeleteLoop(idl, i, st, failAt) ==
    IF i > Len(idl) THEN st
    ELSE LET p == SscanUint32(idl[i])
         IN  IF ~p.ok THEN [st EXCEPT !.res = "invalid"]
             ELSE LET s2 == Issue(st, "store", {p.val}, <<"+", "Deleted">>, failAt)
                  IN  IF s2.res # "ok" THEN s2
                      ELSE DeleteLoop(idl, i + 1, s2, failAt)

DeleteMessages(st, idl, permanent, failAt) ==
    LET s1 == SelectMailbox(st, failAt)
    IN  IF s1.res # "ok" THEN s1
        ELSE LET s2 == DeleteLoop(idl, 1, s1, failAt)
             IN  IF s2.res # "ok" \/ ~permanent THEN s2
                 ELSE Issue(s2, "expunge", {}, <<"", "">>, failAt)

\* "Build sequence set from all IDs": [ok, set].
RECURSIVE BuildSeqSet(_, _, _)
BuildSeqSet(idl, i, set) ==
    IF i > Len(idl) THEN [ok |-> TRUE, set |-> set]
    ELSE LET p == SscanUint32(idl[i])
         IN  IF ~p.ok THEN [ok |-> FALSE, set |-> set]
             ELSE BuildSeqSet(idl, i + 1, set \cup {p.val})

\* A move that flags the source messages before it copies them.
MoveFlaggingFirst(st, idl, failAt) ==
    LET s1 == SelectMailbox(st, failAt)
        b == BuildSeqSet(idl, 1, {})
    IN  IF s1.res # "ok" THEN s1
        ELSE IF ~b.ok THEN [s1 EXCEPT !.res = "invalid"]
        ELSE LET s2 == Issue(s1, "store", b.set, <<"+", "Deleted">>, failAt)
             IN  IF s2.res # "ok" THEN s2
                 ELSE LET s3 == Issue(s2, "copy", b.set, <<"", "dest">>, failAt)
                      IN  IF s3.res # "ok" THEN s3
                          ELSE Issue(s3, "expunge", {}, <<"", "">>, failAt)

MoveMessages(st, idl, failAt) ==
    LET s1 == SelectMailbox(st, failAt)
        b == BuildSeqSet(idl, 1, {})
    IN  IF s1.res # "ok" THEN s1
        ELSE IF ~b.ok THEN [s1 EXCEPT !.res = "invalid"]
        ELSE LET s2 == Issue(s1, "copy", b.set, <<"", "dest">>, failAt)
             IN  IF s2.res # "ok" THEN s2
                 ELSE LET s3 == Issue(s2, "store", b.set, <<"+", "Deleted">>, failAt)
                      IN  IF s3.res # "ok" THEN s3
                          ELSE Issue(s3, "expunge", {}, <<"", "">>, failAt)

\* One "if read { store ... }" block of SetFlagsMultiple.
FlagStep(st, on, set, op, flag, failAt) ==
    IF st.res # "ok" \/ ~on THEN st
    ELSE Issue(st, "store", set, <<op, flag>>, failAt)

SetFlagsMultiple(st, idl, f, failAt) ==
    LET s1 == SelectMailbox(st, failAt)
        b == BuildSeqSet(idl, 1, {})
    IN  IF s1.res # "ok" THEN s1
        ELSE IF ~b.ok THEN [s1 EXCEPT !.res = "invalid"]
        ELSE FlagStep(FlagStep(FlagStep(FlagStep(s1,
                 f.read, b.set, "+", "Seen", failAt),
                 f.unread, b.set, "-", "Seen", failAt),
                 f.star, b.set, "+", "Flagged", failAt),
                 f.unstar, b.set, "-", "Flagged", failAt)

NoFlags == [read |-> FALSE, unread |-> FALSE, star |-> FALSE, unstar |-> FALSE]
FlagArgs == [read : BOOLEAN, unread : BOOLEAN, star : BOOLEAN, unstar : BOOLEAN]

\* The most commands one call issues: select, one store per id, expunge.
MaxCmds == MaxIds + 2

Session == [log |-> log, mbox |-> mbox, dest |-> dest, res |-> "ok"]

BatchIdle ==
    /\ ids = << >>
    /\ bOp = "none"
    /\ bArgs = [permanent |-> FALSE, f |-> NoFlags]
    /\ log = << >>
    /\ mbox = << >>
    /\ dest = {}
    /\ bResult = "none"

BatchInit ==
    /\ ids \in IdLists
    /\ bOp = "none"
    /\ bArgs = [permanent |-> FALSE, f |-> NoFlags]
    /\ log = << >>
    /\ mbox = InitMbox
    /\ dest = {}
    /\ bResult = "none"

Ran(op, args, st) ==
    /\ bOp' = op
    /\ bArgs' = args
    /\ log' = st.log
    /\ mbox' = st.mbox
    /\ dest' = st.dest
    /\ bResult' = st.res
    /\ UNCHANGED ids

\* pm-cli mail delete <ids> [--permanent], on a connected session.
DoDelete ==
    /\ bOp = "none"
    /\ \E permanent \in BOOLEAN, failAt \in 0..MaxCmds :
          Ran("delete", [permanent |-> permanent, f |-> NoFlags],
              DeleteMessages(Session, ids, permanent, failAt))

\* pm-cli mail move <ids> <destination>
DoMove ==
    /\ bOp = "none"
    /\ \E failAt \in 0..MaxCmds :
          Ran("move", [permanent |-> FALSE, f |-> NoFlags],
              MoveMessages(Session, ids, failAt))

\* pm-cli mail flag <ids> [--read] [--unread] [--star] [--unstar]; the command
\* refuses to run with no flag given.
DoFlag ==
    /\ bOp = "none"
    /\ \E f \in FlagArgs \ {NoFlags}, failAt \in 0..MaxCmds :
          Ran("flag", [permanent |-> FALSE, f |-> f],
              SetFlagsMultiple(Session, ids, f, failAt))


\* ------------------------------------------------------------------------
\* Sending: Client.Send and Client.writeMessage (internal/smtp)
\* ------------------------------------------------------------------------

MaxAttach == 2   \* most attachment paths of one outgoing message

\* What opening and reading an attachment path does.
FileStates == {"ok", "missing", "unreadable"}

OutgoingMessages ==
    [to : {<<"a@x">>, <<"a@x", "b@x">>},
     cc : {<< >>, <<"c@x">>},
     bcc : {<< >>, <<"d@x">>},
     inReplyTo : {"", "<id@x>"},
     attachments : SeqsOf(FileStates, 0, MaxAttach)]

\* The attachment loop of writeMessage from path i on; parts are written to the
\* local buffer buf, never to w.  [err, buf].
RECURSIVE AttachLoop(_, _, _)
AttachLoop(atts, i, buf) ==
    IF i > Len(atts) THEN [err |-> "", buf |-> buf]
    ELSE IF atts[i] = "missing" THEN [err |-> "open", buf |-> buf]
    ELSE IF atts[i] = "unreadable" THEN [err |-> "read", buf |-> buf]
    ELSE AttachLoop(atts, i + 1, Append(buf, "attachment-part"))

\* Header lines that name the blind-copy recipients as well.
HeaderLinesWithBcc(msg) ==
    <<"From", "To">> \o msg.to
    \o (IF Len(msg.cc) > 0 THEN <<"Cc">> \o msg.cc ELSE << >>)
    \o (IF Len(msg.bcc) > 0 THEN <<"Bcc">> \o msg.bcc ELSE << >>)
    \o <<"Subject", "Date">>
    \o (IF msg.inReplyTo # "" THEN <<"In-Reply-To">> ELSE << >>)
    \o <<"MIME-Version">>

\* The header lines writeMessage prints straight to w; the To and Cc lines
\* are followed by the addresses they list.
HeaderLines(msg) ==
    <<"From", "To">> \o msg.to
    \o (IF Len(msg.cc) > 0 THEN <<"Cc">> \o msg.cc ELSE << >>)
    \o <<"Subject", "Date">>
    \o (IF msg.inReplyTo # "" THEN <<"In-Reply-To">> ELSE << >>)
    \o <<"MIME-Version">>

\* writeMessage(w, msg): [err, out], out being what reached w when it returned.
writeMessage(msg) ==
    IF Len(msg.attachments) = 0
    THEN [err |-> "",
          out |-> HeaderLines(msg)
                  \o <<"Content-Type: text/plain", "Content-Transfer-Encoding", "", "body">>]
    ELSE LET head == HeaderLines(msg) \o <<"Content-Type: multipart/mixed", "">>
             a == AttachLoop(msg.attachments, 1, <<"text-part">>)
         IN  IF a.err # "" THEN [err |-> a.err, out |-> head]
             ELSE [err |-> "", out |-> head \o a.buf \o <<"closing-boundary">>]

AllRecipients(msg) == msg.to \o msg.cc \o msg.bcc

\* One SMTP step; the failAt-th step of the call fails (0: none does).
Step(st, name, arg, failAt) ==
    LET ok == Len(st.log) + 1 # failAt
    IN  [st EXCEPT !.log = Append(@, [step |-> name, arg |-> arg, ok |-> ok]),
                   !.res = IF ok THEN "ok" ELSE "error"]

\* A recipient loop that goes on to the next recipient after a rejection.
RECURSIVE RcptLoopSkipping(_, _, _, _)
RcptLoopSkipping(st, rcpts, i, failAt) ==
    IF i > Len(rcpts) THEN [st EXCEPT !.res = "ok"]
    ELSE RcptLoopSkipping(Step(st, "RCPT", rcpts[i], failAt), rcpts, i + 1, failAt)

RECURSIVE RcptLoop(_, _, _, _)
RcptLoop(st, rcpts, i, failAt) ==
    IF i > Len(rcpts) THEN st
    ELSE LET s2 == Step(st, "RCPT", rcpts[i], failAt)
         IN  IF s2.res # "ok" THEN s2 ELSE RcptLoop(s2, rcpts, i + 1, failAt)

\* Send, from smtp.NewClient's greeting on.  failAt = -1: the dial itself fails.
Send(msg, failAt) ==
    LET s0 == [log |-> << >>, res |-> "ok", data |-> << >>, closed |-> FALSE]
        s1 == Step(s0, "HELLO", "", failAt)
        s2 == IF s1.res # "ok" THEN s1 ELSE Step(s1, "AUTH", "", failAt)
        s3 == IF s2.res # "ok" THEN s2 ELSE Step(s2, "MAIL", "", failAt)
        s4 == IF s3.res # "ok" THEN s3 ELSE RcptLoop(s3, AllRecipients(msg), 1, failAt)
        s5 == IF s4.res # "ok" THEN s4 ELSE Step(s4, "DATA", "", failAt)
        w == writeMessage(msg)
    IN  IF failAt = -1 THEN [s0 EXCEPT !.res = "error"]
        ELSE IF s5.res # "ok" THEN s5
        ELSE IF w.err # ""
             \* data.Close() on the error path, its result dropped
             THEN [Step(s5, "ENDDATA", "", failAt)
                     EXCEPT !.data = w.out, !.closed = TRUE, !.res = "error"]
        ELSE LET s6 == [Step(s5, "ENDDATA", "", failAt)
                          EXCEPT !.data = w.out, !.closed = TRUE]
             IN  IF s6.res # "ok" THEN s6 ELSE Step(s6, "QUIT", "", failAt)

\* The most SMTP steps of one Send: HELLO AUTH MAIL, the RCPTs, DATA ENDDATA QUIT.
MaxSteps(msg) == Len(AllRecipients(msg)) + 6

SendIdle ==
    /\ sMsg = [to |-> << >>, cc |-> << >>, bcc |-> << >>, inReplyTo |-> "",
               attachments |-> << >>]
    /\ smtpLog = << >>
    /\ dataStream = << >>
    /\ dataClosed = FALSE
    /\ sResult = "none"

SendInit ==
    /\ sMsg \in OutgoingMessages
    /\ smtpLog = << >>
    /\ dataStream = << >>
    /\ dataClosed = FALSE
    /\ sResult = "none"

\* smtpClient.Send(msg), as mail send, reply and forward call it.
DoSend ==
    /\ sResult = "none"
    /\ \E failAt \in -1..MaxSteps(sMsg) :
          LET r == Send(sMsg, failAt)
          IN  /\ smtpLog' = r.log
              /\ dataStream' = r.data
              /\ dataClosed' = r.closed
              /\ sResult' = r.res
    /\ UNCHANGED sMsg


\* ------------------------------------------------------------------------
\* Attachments: GetAttachments / DownloadAttachment (internal/imap/client.go)
\* and MailDownloadCmd.Run / parseAttachments (internal/cli/mail.go)
\* ------------------------------------------------------------------------

MaxNodes == 5    \* most nodes (parts and multiparts) of a message's MIME tree

\* A single part: its media type, its Content-Disposition value ("" when the
\* header is absent), the disposition's filename parameter and the
\* Content-Type's name parameter ("" when absent).  "image" stands for any
\* media type other than text.
Leaf(type, disp, dfile, cname) ==
    [kind |-> "leaf", type |-> type, disp |-> disp, dfile |-> dfile, cname |-> cname]
Multi(children) == [kind |-> "multi", children |-> children]

AllLeaves ==
    {Leaf(t, d, f, n) : t \in {"text", "image"}, d \in {"attachment", "inline"},
                        f \in {"", "f.bin"}, n \in {"", "n.bin"}}
    \cup {Leaf(t, "", "", n) : t \in {"text", "image"}, n \in {"", "n.bin"}}

\* The leaves composite messages are built from.
CoreLeaves ==
    {Leaf("text", "", "", ""), Leaf("text", "", "", "n.bin"),
     Leaf("image", "", "", ""), Leaf("image", "inline", "", ""),
     Leaf("image", "attachment", "f.bin", "")}

\* Trees of exactly n nodes over CoreLeaves; forests (sequences of trees) of
\* exactly m nodes in all.
RECURSIVE TreesOfSize(_), ForestsOfSize(_)
TreesOfSize(n) ==
    IF n = 1 THEN CoreLeaves
    ELSE {Multi(f) : f \in ForestsOfSize(n - 1)}
ForestsOfSize(m) ==
    IF m = 0 THEN {<< >>}
    ELSE UNION {{<<t>> \o f : t \in TreesOfSize(k), f \in ForestsOfSize(m - k)} : k \in 1..m}

Trees == AllLeaves \cup UNION {TreesOfSize(n) : n \in 1..MaxNodes}

\* strconv-style decimal formatting, as fmt.Sprintf("%d", n) does for n >= 0.
RECURSIVE Itoa(_)
Itoa(n) ==
    IF n < 10 THEN <<IF n = 0 THEN "0" ELSE DigitChar[n]>>
    ELSE Itoa(n \div 10) \o Itoa(n % 10)

\* strings.Split(s, sep) for a one-character sep.
RECURSIVE Split(_, _, _, _)
Split(s, sep, i, cur) ==
    IF i > Len(s) THEN <<cur>>
    ELSE IF s[i] = sep THEN <<cur>> \o Split(s, sep, i + 1, << >>)
    ELSE Split(s, sep, i + 1, Append(cur, s[i]))

\* splitPartNum: "1.2.3" to <<1, 2, 3>>
splitPartNum(s) ==
    IF s = << >> THEN << >>
    ELSE LET parts == Split(s, ".", 1, << >>)
         IN  [i \in 1..Len(parts) |-> SscanInt64(parts[i]).val]

\* childPart: fmt.Sprintf("%d", i+1) or fmt.Sprintf("%s.%d", partNum, i+1)
ChildPart(partNum, i) ==
    IF partNum = << >> THEN Itoa(i) ELSE partNum \o <<".">> \o Itoa(i)

\* The filename a single part declares: the disposition's filename parameter,
\* else the Content-Type's name parameter.
DeclaredName(s) == IF s.dfile # "" THEN s.dfile ELSE s.cname

\* The isAttachment test the three walkers of client.go repeat.
IsAttachmentPart(s) ==
    LET byName == DeclaredName(s) # "" \/ s.disp = "attachment"
    IN  IF ~byName /\ s.type # "text" THEN s.disp # "inline" ELSE byName

FileNameOf(s, index) ==
    IF DeclaredName(s) = "" THEN <<"attachment_">> \o Itoa(index) ELSE <<DeclaredName(s)>>

\* extractAttachments(bs, &index, partNum): [atts, index], index being the
\* counter the walk leaves behind.
RECURSIVE extractAttachments(_, _, _), ExtractChildren(_, _, _, _, _)
extractAttachments(t, index, partNum) ==
    IF t.kind = "leaf"
    THEN IF IsAttachmentPart(t)
         THEN [atts |-> <<[Index |-> index, Filename |-> FileNameOf(t, index),
                           ContentType |-> t.type]>>,
               index |-> index + 1]
         ELSE [atts |-> << >>, index |-> index]
    ELSE ExtractChildren(t.children, 1, index, partNum, << >>)
ExtractChildren(ch, i, index, partNum, acc) ==
    IF i > Len(ch) THEN [atts |-> acc, index |-> index]
    ELSE LET r == extractAttachments(ch[i], index, ChildPart(partNum, i))
         IN  ExtractChildren(ch, i + 1, r.index, partNum, acc \o r.atts)

GetAttachments(t) == extractAttachments(t, 0, << >>).atts

\* countAttachments that counts single parts only and does not descend.
CountWithoutDescent(t) ==
    IF t.kind = "leaf" THEN (IF IsAttachmentPart(t) THEN 1 ELSE 0) ELSE 0

RECURSIVE countAttachments(_), CountChildren(_, _)
countAttachments(t) ==
    IF t.kind = "leaf" THEN (IF IsAttachmentPart(t) THEN 1 ELSE 0)
    ELSE CountChildren(t.children, 1)
CountChildren(ch, i) ==
    IF i > Len(ch) THEN 0 ELSE countAttachments(ch[i]) + CountChildren(ch, i + 1)

NotFound == [found |-> FALSE, partNums |-> << >>, filename |-> << >>]

\* findAttachmentPart(bs, targetIndex, partNum, currentIndex); NotFound is nil.
RECURSIVE findAttachmentPart(_, _, _, _), FindInChildren(_, _, _, _, _)
findAttachmentPart(t, targetIndex, partNum, currentIndex) ==
    IF t.kind = "leaf"
    THEN IF IsAttachmentPart(t) /\ currentIndex = targetIndex
         THEN [found |-> TRUE, partNums |-> splitPartNum(partNum),
               filename |-> FileNameOf(t, targetIndex)]
         ELSE NotFound
    ELSE FindInChildren(t.children, 1, targetIndex, partNum, currentIndex)
FindInChildren(ch, i, targetIndex, partNum, idx) ==
    IF i > Len(ch) THEN NotFound
    ELSE LET r == findAttachmentPart(ch[i], targetIndex, ChildPart(partNum, i), idx)
         IN  IF r.found THEN r
             ELSE FindInChildren(ch, i + 1, targetIndex, partNum,
                                 idx + countAttachments(ch[i]))

\* Client.DownloadAttachment: the part whose bytes the second fetch asks for.
DownloadAttachment(t, index) == findAttachmentPart(t, index, << >>, 0)

\* The leaves of the raw message in the order mail.Reader.NextPart yields them
\* (nested multiparts are entered depth-first), each with its place in the tree.
RECURSIVE RawParts(_, _), RawChildren(_, _, _)
RawParts(t, path) ==
    IF t.kind = "leaf" THEN <<[part |-> t, path |-> path]>>
    ELSE RawChildren(t.children, 1, path)
RawChildren(ch, i, path) ==
    IF i > Len(ch) THEN << >>
    ELSE RawParts(ch[i], Append(path, i)) \o RawChildren(ch, i + 1, path)

\* The test of parseAttachments on a part's Content-Disposition and
\* Content-Type header values.
IsCliAttachment(p) ==
    \/ p.part.disp = "attachment"
    \/ (p.part.disp # "" /\ p.part.type # "text")

\* parseAttachments(rawBody): the parts kept, each with the filename the
\* regexp finds in the Content-Disposition header.
parseAttachments(t) ==
    LET kept == SelectSeq(RawParts(t, << >>), IsCliAttachment)
    IN  [i \in 1..Len(kept) |->
            [Index |-> i - 1,
             Filename |-> IF kept[i].part.dfile = "" THEN << >> ELSE <<kept[i].part.dfile>>,
             path |-> kept[i].path]]

\* MailDownloadCmd.Run: the part whose bytes are written to the output file.
MailDownload(t, index) ==
    LET atts == parseAttachments(t)
    IN  IF Len(atts) = 0 \/ index < 0 \/ index >= Len(atts) THEN NotFound
        ELSE [found |-> TRUE, partNums |-> atts[index + 1].path,
              filename |-> atts[index + 1].Filename]

Indexes == -1..MaxNodes

MimeIdle ==
    /\ bs = Leaf("text", "", "", "")
    /\ mOp = "none"
    /\ listing = << >>
    /\ dlIndex = 0
    /\ dl = NotFound
    /\ cliDl = NotFound

MimeInit ==
    /\ bs \in Trees
    /\ mOp = "none"
    /\ listing = << >>
    /\ dlIndex = 0
    /\ dl = NotFound
    /\ cliDl = NotFound

\* pm-cli mail read <id> --attachments
DoGetAttachments ==
    /\ mOp = "none"
    /\ mOp' = "listed"
    /\ listing' = GetAttachments(bs)
    /\ UNCHANGED <<bs, dlIndex, dl, cliDl>>

\* Client.DownloadAttachment(mailbox, id, index) on the same message
DoDownloadAttachment ==
    /\ mOp = "listed"
    /\ \E index \in Indexes :
          /\ dlIndex' = index
          /\ dl' = DownloadAttachment(bs, index)
    /\ mOp' = "fetched"
    /\ UNCHANGED <<bs, listing, cliDl>>

\* pm-cli mail download <id> <index> on the same message
DoMailDownload ==
    /\ mOp = "listed"
    /\ \E index \in Indexes :
          /\ dlIndex' = index
          /\ cliDl' = MailDownload(bs, index)
    /\ mOp' = "saved"
    /\ UNCHANGED <<bs, listing, dl>>


\* ------------------------------------------------------------------------
\* Body resolution: parseMessageBody (internal/cli/mail.go)
\* ------------------------------------------------------------------------

MaxParts == 2    \* most parts the MIME reader yields for one message

\* One part as mail.Reader.NextPart yields it: its Content-Type, its decoded
\* body, and whether io.ReadAll of the body succeeds.
BodyParts ==
    [ctype : {"text/plain", "text/html", "image/png"}, data : {"A", "B"}, readOk : BOOLEAN]

\* A fetched raw message: whether mail.CreateReader accepts it, the parts the
\* reader yields, the part at which NextPart fails (0: it ends with io.EOF),
\* the top-level Content-Type, and the blank line that ends the headers.
RawMessages ==
    {r \in [parses : BOOLEAN, parts : SeqsOf(BodyParts, 0, MaxParts), errAt : 0..MaxParts,
            ctype : {"text/plain", "text/html"}, blank : {"crlf", "lf", "none"}] :
        /\ r.errAt <= Len(r.parts) + 1
        /\ ~r.parses => (r.parts = << >> /\ r.errAt = 0)
        \* the headers only matter when the reader yields no part
        /\ (r.parses /\ Len(r.parts) > 0 /\ r.errAt # 1)
              => (r.ctype = "text/plain" /\ r.blank = "crlf")}

\* The NextPart loop from part i on; b is [found, text, html].
RECURSIVE PartLoop(_, _, _)
PartLoop(r, i, b) ==
    IF i > Len(r.parts) \/ r.errAt = i THEN b
    ELSE LET part == r.parts[i]
             b1 == [b EXCEPT !.found = TRUE]
         IN  PartLoop(r, i + 1,
                 IF part.ctype = "text/plain" /\ part.readOk
                 THEN [b1 EXCEPT !.text = part.data]
                 ELSE IF part.ctype = "text/html" /\ part.readOk
                 THEN [b1 EXCEPT !.html = part.data]
                 ELSE b1)

\* A resolver that gives up on input the MIME reader rejects.
parseMessageBodyOrNothing(r) ==
    IF ~r.parses THEN [text |-> "", html |-> ""]
    ELSE LET b == PartLoop(r, 1, [found |-> FALSE, text |-> "", html |-> ""])
         IN  IF b.found \/ r.blank = "none" THEN [text |-> b.text, html |-> b.html]
             ELSE IF r.ctype = "text/html" THEN [text |-> b.text, html |-> "AFTER-HEADERS"]
             ELSE [text |-> "AFTER-HEADERS", html |-> b.html]

\* parseMessageBody(rawBody): [text, html].  "RAW" is the whole input,
\* "AFTER-HEADERS" what follows its first blank line.
parseMessageBody(r) ==
    IF ~r.parses THEN [text |-> "RAW", html |-> ""]
    ELSE LET b == PartLoop(r, 1, [found |-> FALSE, text |-> "", html |-> ""])
         IN  IF b.found \/ r.blank = "none" THEN [text |-> b.text, html |-> b.html]
             ELSE IF r.ctype = "text/html" THEN [text |-> b.text, html |-> "AFTER-HEADERS"]
             ELSE [text |-> "AFTER-HEADERS", html |-> b.html]

BodyIdle ==
    /\ rawMsg = [parses |-> FALSE, parts |-> << >>, errAt |-> 0,
                 ctype |-> "text/plain", blank |-> "crlf"]
    /\ body = [done |-> FALSE, text |-> "", html |-> ""]

BodyInit ==
    /\ rawMsg \in RawMessages
    /\ body = [done |-> FALSE, text |-> "", html |-> ""]

\* pm-cli mail read <id>: resolve the bodies of the fetched message
DoParseMessageBody ==
    /\ ~body.done
    /\ LET b == parseMessageBody(rawMsg)
       IN  body' = [done |-> TRUE, text |-> b.text, html |-> b.html]
    /\ UNCHANGED rawMsg


\* ------------------------------------------------------------------------
\* Search: MailSearchCmd.Run, parseSize (internal/cli/mail.go),
\* buildSearchCriteria, buildOrSearchCriteria, parseDate (internal/imap)
\* ------------------------------------------------------------------------

ToUpperChar(c) ==
    CASE c = "k" -> "K" [] c = "m" -> "M" [] c = "g" -> "G" [] c = "b" -> "B"
      [] c = "x" -> "X" [] OTHER -> c
ToUpper(s) == [i \in 1..Len(s) |-> ToUpperChar(s[i])]

RECURSIVE TrimSpace(_)
TrimSpace(s) ==
    IF s = << >> THEN s
    ELSE IF s[1] = " " THEN TrimSpace(Tail(s))
    ELSE IF s[Len(s)] = " " THEN TrimSpace(SubSeq(s, 1, Len(s) - 1))
    ELSE s

DropLast(s, n) == SubSeq(s, 1, Len(s) - n)

KiB == 1024
MiB == 1024 * 1024
GiB == 1024 * 1024 * 1024

\* parseSize: "1M", "500K", "1G" into bytes.  The result of Sscanf is not
\* looked at: a string it cannot scan leaves value at 0.
parseSize(str) ==
    IF str = << >> THEN 0
    ELSE LET s == TrimSpace(ToUpper(str))
         IN  IF Len(s) = 0 THEN 0
             ELSE LET suffix == s[Len(s)]
                      prefix == IF Len(s) >= 2 THEN s[Len(s) - 1] ELSE ""
                      cut == CASE suffix = "K" -> [m |-> KiB, s |-> DropLast(s, 1)]
                               [] suffix = "M" -> [m |-> MiB, s |-> DropLast(s, 1)]
                               [] suffix = "G" -> [m |-> GiB, s |-> DropLast(s, 1)]
                               [] suffix = "B" /\ prefix = "K" -> [m |-> KiB, s |-> DropLast(s, 2)]
                               [] suffix = "B" /\ prefix = "M" -> [m |-> MiB, s |-> DropLast(s, 2)]
                               [] suffix = "B" /\ prefix = "G" -> [m |-> GiB, s |-> DropLast(s, 2)]
                               [] suffix = "B" /\ prefix \notin {"K", "M", "G"}
                                    -> [m |-> 1, s |-> DropLast(s, 1)]
                               [] OTHER -> [m |-> 1, s |-> s]
                  IN  SscanInt64(cut.s).val * cut.m

IsLeapYear(y) == (y % 4 = 0 /\ y % 100 # 0) \/ y % 400 = 0
DaysIn(m, y) ==
    IF m = 2 THEN (IF IsLeapYear(y) THEN 29 ELSE 28)
    ELSE IF m \in {4, 6, 9, 11} THEN 30 ELSE 31

\* parseDate: time.Parse("2006-01-02", s): four digits, "-", two digits, "-",
\* two digits and nothing else, naming a day that exists.  [ok, t]; t orders
\* the days and is never 0 for a date that parses.
parseDate(s) ==
    LET shaped == /\ Len(s) = 10
                  /\ s[5] = "-" /\ s[8] = "-"
                  /\ \A i \in {1, 2, 3, 4, 6, 7, 9, 10} : s[i] \in Digits
        y == ScanNumber(s, 1, 0, 0).val
        m == ScanNumber(s, 6, 0, 0).val
        d == ScanNumber(s, 9, 0, 0).val
    IN  IF shaped /\ m \in 1..12 /\ d \in 1..DaysIn(m, y)
        THEN [ok |-> TRUE, t |-> y * 10000 + m * 100 + d]
        ELSE [ok |-> FALSE, t |-> 0]

\* imap.SearchCriteria: the zero value of a field is the absence of that key,
\* and the keys of one criteria are conjoined.
NoCriteria ==
    [Body |-> << >>, Header |-> << >>, Since |-> 0, Before |-> 0,
     Larger |-> 0, Smaller |-> 0, Not |-> << >>, Or |-> << >>]

HeaderField(k, v) == [Key |-> k, Value |-> v]

\* buildOrSearchCriteria, first half: one criteria per populated filter.
OrCriteria(o) ==
    (IF o.Query # "" THEN <<[NoCriteria EXCEPT !.Body = <<o.Query>>]>> ELSE << >>)
    \o (IF o.Body # "" THEN <<[NoCriteria EXCEPT !.Body = <<o.Body>>]>> ELSE << >>)
    \o (IF o.From # ""
        THEN <<[NoCriteria EXCEPT !.Header = <<HeaderField("From", o.From)>>]>> ELSE << >>)
    \o (IF o.To # ""
        THEN <<[NoCriteria EXCEPT !.Header = <<HeaderField("To", o.To)>>]>> ELSE << >>)
    \o (IF o.Subject # ""
        THEN <<[NoCriteria EXCEPT !.Header = <<HeaderField("Subject", o.Subject)>>]>>
        ELSE << >>)
    \o (IF o.Since # << >> /\ parseDate(o.Since).ok
        THEN <<[NoCriteria EXCEPT !.Since = parseDate(o.Since).t]>> ELSE << >>)
    \o (IF o.Before # << >> /\ parseDate(o.Before).ok
        THEN <<[NoCriteria EXCEPT !.Before = parseDate(o.Before).t]>> ELSE << >>)
    \o (IF o.LargerThan > 0 THEN <<[NoCriteria EXCEPT !.Larger = o.LargerThan]>> ELSE << >>)
    \o (IF o.SmallerThan > 0 THEN <<[NoCriteria EXCEPT !.Smaller = o.SmallerThan]>> ELSE << >>)
    \o (IF o.HasAttachments
        THEN <<[NoCriteria EXCEPT
                   !.Header = <<HeaderField("Content-Type", "multipart/mixed")>>]>>
        ELSE << >>)

\* A chaining loop that stops one element early and leaves the first out.
RECURSIVE ChainFrom(_, _)
ChainFrom(list, i) ==
    IF i = Len(list) THEN list[i]
    ELSE [NoCriteria EXCEPT !.Or = <<<<list[i], ChainFrom(list, i + 1)>>>>]
OrChainWithoutFirst(list, i) ==
    IF i = 1 /\ Len(list) >= 2 THEN ChainFrom(list, 2) ELSE ChainFrom(list, i)

\* The chaining loop: OR(a, OR(b, OR(c, d))), from element i of a non-empty list.
RECURSIVE OrChain(_, _)
OrChain(list, i) ==
    IF i = Len(list) THEN list[i]
    ELSE [NoCriteria EXCEPT !.Or = <<<<list[i], OrChain(list, i + 1)>>>>]

buildOrSearchCriteria(o) ==
    LET orCriteria == OrCriteria(o)
    IN  IF Len(orCriteria) = 0 THEN NoCriteria
        ELSE IF Len(orCriteria) = 1
        THEN (IF o.Negate THEN [NoCriteria EXCEPT !.Not = orCriteria] ELSE orCriteria[1])
        ELSE IF o.Negate THEN [NoCriteria EXCEPT !.Not = <<OrChain(orCriteria, 1)>>]
        ELSE OrChain(orCriteria, 1)

\* A Body list the explicit body filter overwrites instead of extending.
BodyKeysOverwritten(o) ==
    IF o.Body # "" THEN <<o.Body>> ELSE IF o.Query # "" THEN <<o.Query>> ELSE << >>

\* "Body text search (general query or explicit body search)": two appends.
BodyKeys(o) ==
    (IF o.Query # "" THEN <<o.Query>> ELSE << >>)
    \o (IF o.Body # "" THEN <<o.Body>> ELSE << >>)

\* The default AND logic: every key goes into a single criteria.
AndCriteria(o) ==
    [NoCriteria EXCEPT
        !.Body = BodyKeys(o),
        !.Header = (IF o.From # "" THEN <<HeaderField("From", o.From)>> ELSE << >>)
                   \o (IF o.To # "" THEN <<HeaderField("To", o.To)>> ELSE << >>)
                   \o (IF o.Subject # "" THEN <<HeaderField("Subject", o.Subject)>> ELSE << >>)
                   \o (IF o.HasAttachments
                       THEN <<HeaderField("Content-Type", "multipart/mixed")>> ELSE << >>),
        !.Since = IF o.Since # << >> /\ parseDate(o.Since).ok THEN parseDate(o.Since).t ELSE 0,
        !.Before = IF o.Before # << >> /\ parseDate(o.Before).ok
                   THEN parseDate(o.Before).t ELSE 0,
        !.Larger = IF o.LargerThan > 0 THEN o.LargerThan ELSE 0,
        !.Smaller = IF o.SmallerThan > 0 THEN o.SmallerThan ELSE 0]

buildSearchCriteria(o) ==
    IF o.UseOr THEN buildOrSearchCriteria(o)
    ELSE IF o.Negate THEN [NoCriteria EXCEPT !.Not = <<AndCriteria(o)>>]
    ELSE AndCriteria(o)

\* The SearchOptions MailSearchCmd.Run builds from its flags.
SearchOptionsOf(f) ==
    [Query |-> f.Query, From |-> f.From, To |-> f.To, Subject |-> f.Subject,
     Body |-> f.Body, Since |-> f.Since, Before |-> f.Before,
     HasAttachments |-> f.HasAttachments,
     LargerThan |-> parseSize(f.LargerThan), SmallerThan |-> parseSize(f.SmallerThan),
     UseOr |-> f.Or, Negate |-> f.Not]

\* What the server's SEARCH answers for one message: the keys of a criteria
\* are conjoined, Not negates, Or takes either operand.  A message is the text
\* atoms its body contains, its header values, its day and its size.
RECURSIVE Matches(_, _)
Matches(c, m) ==
    /\ \A i \in 1..Len(c.Body) : c.Body[i] \in m.body
    /\ \A i \in 1..Len(c.Header) : c.Header[i].Value = m.header[c.Header[i].Key]
    /\ c.Since # 0 => m.date >= c.Since
    /\ c.Before # 0 => m.date < c.Before
    /\ c.Larger # 0 => m.size > c.Larger
    /\ c.Smaller # 0 => m.size < c.Smaller
    /\ \A i \in 1..Len(c.Not) : ~Matches(c.Not[i], m)
    /\ \A i \in 1..Len(c.Or) : Matches(c.Or[i][1], m) \/ Matches(c.Or[i][2], m)


TextFlags ==
    [Query : {"", "a"}, Body : {"", "b"}, From : {"", "f"}, To : {"", "t"},
     Subject : {"", "s"}]

D(y1, y2, y3, y4, m1, m2, d1, d2) == <<y1, y2, y3, y4, "-", m1, m2, "-", d1, d2>>

\* --since: none, 2024-01-15, 2024-13-01; --before: none, 2024-03-01, 1/2/2024
SinceStrings == {<< >>, D("2", "0", "2", "4", "0", "1", "1", "5"),
                 D("2", "0", "2", "4", "1", "3", "0", "1")}
BeforeStrings == {<< >>, D("2", "0", "2", "4", "0", "3", "0", "1"),
                  <<"1", "/", "2", "/", "2", "0", "2", "4">>}

\* --larger-than / --smaller-than: none, 1K, 2kb, x, 5X, -1
PlainSizeStrings == {<< >>, <<"1", "K">>}
SizeStrings == PlainSizeStrings \cup {<<"2", "k", "b">>, <<"x">>, <<"5", "X">>, <<"-", "1">>}

FlagsOver(text, sizes) ==
    {[Query |-> t.Query, Body |-> t.Body, From |-> t.From, To |-> t.To,
      Subject |-> t.Subject, Since |-> si, Before |-> be, HasAttachments |-> ha,
      LargerThan |-> la, SmallerThan |-> sm, Or |-> o, Not |-> n] :
        t \in text, si \in SinceStrings, be \in BeforeStrings, ha \in BOOLEAN,
        la \in sizes, sm \in sizes, o \in BOOLEAN, n \in BOOLEAN}

NoSearchFlags ==
    [Query |-> "", Body |-> "", From |-> "", To |-> "", Subject |-> "",
     Since |-> << >>, Before |-> << >>, HasAttachments |-> FALSE,
     LargerThan |-> << >>, SmallerThan |-> << >>, Or |-> FALSE, Not |-> FALSE]

SearchIdle ==
    /\ flags = NoSearchFlags
    /\ opts = SearchOptionsOf(NoSearchFlags)
    /\ criteria = NoCriteria
    /\ sRes = "none"

\* Every combination of filters, sizes well-formed.
SearchInit ==
    /\ flags \in FlagsOver(TextFlags, PlainSizeStrings)
    /\ opts = SearchOptionsOf(NoSearchFlags)
    /\ criteria = NoCriteria
    /\ sRes = "none"

\* Every size string, beside a general query and a sender.
SearchSizesInit ==
    /\ flags \in FlagsOver({t \in TextFlags : t.Body = "" /\ t.To = "" /\ t.Subject = ""},
                           SizeStrings)
    /\ opts = SearchOptionsOf(NoSearchFlags)
    /\ criteria = NoCriteria
    /\ sRes = "none"

\* pm-cli mail search: build the options, then Client.Search builds the
\* criteria and sends them; only the server can make it fail.
DoSearch ==
    /\ sRes = "none"
    /\ opts' = SearchOptionsOf(flags)
    /\ criteria' = buildSearchCriteria(SearchOptionsOf(flags))
    /\ \E serverOk \in BOOLEAN : sRes' = IF serverOk THEN "ok" ELSE "error"
    /\ UNCHANGED flags

\* ------------------------------------------------------------------------
\* Query-based batch operations: the --query branch of MailDeleteCmd.Run,
\* MailMoveCmd.Run, MailFlagCmd.Run, and Client.SearchIDs
\* ------------------------------------------------------------------------

\* The sequence numbers of a search response, ascending, each formatted "%d".
RECURSIVE FormatSeqNums(_)
FormatSeqNums(set) ==
    IF set = {} THEN << >>
    ELSE LET lo == CHOOSE n \in set : \A k \in set : n <= k
         IN  <<Itoa(lo)>> \o FormatSeqNums(set \ {lo})

\* What the server may answer to a SEARCH: any set of the mailbox's messages.
SearchAnswers == SUBSET (1..NumMsgs)

\* Client.SearchIDs: select, search; [st, ids].  The search entry of the log
\* carries the sequence numbers the server answered.
SearchIDs(st, found, failAt) ==
    LET s1 == SelectMailbox(st, failAt)
        s2 == Issue(s1, "search", found, <<"", "">>, failAt)
    IN  IF s1.res # "ok" THEN [st |-> s1, ids |-> << >>]
        ELSE IF s2.res # "ok" THEN [st |-> s2, ids |-> << >>]
        ELSE [st |-> s2, ids |-> FormatSeqNums(found)]

\* A query branch that goes on with whatever the search returned.
ResolveQueryUnchecked(st, given, found, failAt) ==
    LET r == SearchIDs(st, found, failAt)
    IN  IF r.st.res # "ok" THEN [st |-> r.st, ids |-> given, go |-> FALSE]
        ELSE [st |-> r.st, ids |-> r.ids, go |-> TRUE]

\* "If query is provided, search for matching messages": the ids the
\* operation goes on with, or the result it returns with at once.
ResolveQuery(st, given, found, failAt) ==
    LET r == SearchIDs(st, found, failAt)
    IN  IF r.st.res # "ok" THEN [st |-> r.st, ids |-> given, go |-> FALSE]
        ELSE IF Len(r.ids) = 0
             THEN [st |-> [r.st EXCEPT !.res = "no-matches"], ids |-> given, go |-> FALSE]
        ELSE [st |-> r.st, ids |-> r.ids, go |-> TRUE]

\* The most commands of a query-based call: select and search, then the
\* operation's own.
MaxQueryCmds == MaxCmds + 2

QueryInit ==
    /\ ids \in {<< >>, <<<<"2">>>>}
    /\ bOp = "none"
    /\ bArgs = [permanent |-> FALSE, f |-> NoFlags]
    /\ log = << >>
    /\ mbox = InitMbox
    /\ dest = {}
    /\ bResult = "none"

QueryRan(op, args, st, newIds) ==
    /\ bOp' = op
    /\ bArgs' = args
    /\ log' = st.log
    /\ mbox' = st.mbox
    /\ dest' = st.dest
    /\ bResult' = st.res
    /\ ids' = newIds

\* pm-cli mail delete --query <q> [--permanent]
DoDeleteQuery ==
    /\ bOp = "none"
    /\ \E permanent \in BOOLEAN, found \in SearchAnswers, failAt \in 0..MaxQueryCmds :
          LET q == ResolveQuery(Session, ids, found, failAt)
          IN  QueryRan("delete-query", [permanent |-> permanent, f |-> NoFlags],
                       IF q.go THEN DeleteMessages(q.st, q.ids, permanent, failAt) ELSE q.st,
                       q.ids)

\* pm-cli mail move --query <q> <destination>
DoMoveQuery ==
    /\ bOp = "none"
    /\ \E found \in SearchAnswers, failAt \in 0..MaxQueryCmds :
          LET q == ResolveQuery(Session, ids, found, failAt)
          IN  QueryRan("move-query", [permanent |-> FALSE, f |-> NoFlags],
                       IF q.go THEN MoveMessages(q.st, q.ids, failAt) ELSE q.st,
                       q.ids)

\* pm-cli mail flag --query <q> [--read] [--unread] [--star] [--unstar]
DoFlagQuery ==
    /\ bOp = "none"
    /\ \E f \in FlagArgs \ {NoFlags}, found \in SearchAnswers, failAt \in 0..MaxQueryCmds :
          LET q == ResolveQuery(Session, ids, found, failAt)
          IN  QueryRan("flag-query", [permanent |-> FALSE, f |-> f],
                       IF q.go THEN SetFlagsMultiple(q.st, q.ids, f, failAt) ELSE q.st,
                       q.ids)

\* ------------------------------------------------------------------------
\* Composition byte by byte: encodeSubject and writeMessage (internal/smtp).
\* A stream is a sequence of one-character strings; a longer string stands
\* for a run of text with no line break in it (a header line, a boundary).
\* ------------------------------------------------------------------------

\* The characters subjects are made of, with their code points.  "DEL" is
\* U+007F, the last code point that is not above it.
SubjectChars == {"a", " ", "=", "?", "_", "DEL", "U+0080", "U+00E9", "U+3053"}
CodePoint(c) ==
    CASE c = "a" -> 97 [] c = " " -> 32 [] c = "=" -> 61 [] c = "?" -> 63
      [] c = "_" -> 95 [] c = "DEL" -> 127 [] c = "U+0080" -> 128
      [] c = "U+00E9" -> 233 [] c = "U+3053" -> 12371

\* The UTF-8 bytes of a code point of the basic plane.
Utf8Bytes(cp) ==
    IF cp < 128 THEN <<cp>>
    ELSE IF cp < 2048 THEN <<192 + (cp \div 64), 128 + (cp % 64)>>
    ELSE <<224 + (cp \div 4096), 128 + ((cp \div 64) % 64), 128 + (cp % 64)>>

HexDigits ==
    <<"0", "1", "2", "3", "4", "5", "6", "7", "8", "9", "A", "B", "C", "D", "E", "F">>

\* mime's writeQString for the bytes of one rune c.
QEscape(b) == <<"=", HexDigits[(b \div 16) + 1], HexDigits[(b % 16) + 1]>>
QLiteral(b) == b >= 33 /\ b <= 126 /\ b \notin {61, 63, 95}
RECURSIVE QEscapeAll(_, _)
QEscapeAll(bytes, i) ==
    IF i > Len(bytes) THEN << >> ELSE QEscape(bytes[i]) \o QEscapeAll(bytes, i + 1)
writeQString(c) ==
    LET bytes == Utf8Bytes(CodePoint(c))
    IN  IF Len(bytes) = 1 /\ bytes[1] = 32 THEN <<"_">>
        ELSE IF Len(bytes) = 1 /\ QLiteral(bytes[1]) THEN <<c>>
        ELSE QEscapeAll(bytes, 1)

\* The length a rune takes in an encoded word, as qEncode reckons it.
EncLen(c) ==
    LET bytes == Utf8Bytes(CodePoint(c))
    IN  IF Len(bytes) = 1 /\ bytes[1] >= 32 /\ bytes[1] <= 126
           /\ bytes[1] \notin {61, 63, 95}
        THEN 1 ELSE 3 * Len(bytes)

openWord == <<"=", "?", "u", "t", "f", "-", "8", "?", "q", "?">>
closeWord == <<"?", "=">>
\* maxEncodedWordLen less the lengths of "=?UTF-8?q?" and "?="
maxContentLen == 75 - 10 - 2

\* qEncode: runes are never split across encoded words; a word that is full is
\* closed and a new one opened on a continuation line.
RECURSIVE qEncode(_, _, _)
qEncode(s, i, currentLen) ==
    IF i > Len(s) THEN << >>
    ELSE IF currentLen + EncLen(s[i]) > maxContentLen
         THEN closeWord \o <<"\r", "\n", " ">> \o openWord
              \o writeQString(s[i]) \o qEncode(s, i + 1, EncLen(s[i]))
         ELSE writeQString(s[i]) \o qEncode(s, i + 1, currentLen + EncLen(s[i]))

\* mime.QEncoding.Encode("utf-8", s) for an s that needs encoding.
QEncode(s) == openWord \o qEncode(s, 1, 0) \o closeWord

\* A subject encoder that takes U+0080 for a plain character.
encodeSubjectAbove128(subject) ==
    IF \E i \in 1..Len(subject) : CodePoint(subject[i]) > 128
    THEN QEncode(subject) ELSE subject

encodeSubject(subject) ==
    IF \E i \in 1..Len(subject) : CodePoint(subject[i]) > 127
    THEN QEncode(subject) ELSE subject

CRLF == <<"\r", "\n">>
HeaderLine(text) == <<text>> \o CRLF

\* base64.StdEncoding.EncodeToString over a sequence of bytes.
Base64Chars ==
    <<"A", "B", "C", "D", "E", "F", "G", "H", "I", "J", "K", "L", "M", "N", "O", "P",
      "Q", "R", "S", "T", "U", "V", "W", "X", "Y", "Z", "a", "b", "c", "d", "e", "f",
      "g", "h", "i", "j", "k", "l", "m", "n", "o", "p", "q", "r", "s", "t", "u", "v",
      "w", "x", "y", "z", "0", "1", "2", "3", "4", "5", "6", "7", "8", "9", "+", "/">>
B64(n) == Base64Chars[n + 1]
RECURSIVE EncodeToString(_, _)
EncodeToString(c, i) ==
    LET left == Len(c) - i + 1
    IN  IF left <= 0 THEN << >>
        ELSE IF left = 1
             THEN <<B64(c[i] \div 4), B64((c[i] % 4) * 16), "=", "=">>
        ELSE IF left = 2
             THEN <<B64(c[i] \div 4), B64((c[i] % 4) * 16 + (c[i + 1] \div 16)),
                    B64((c[i + 1] % 16) * 4), "=">>
        ELSE <<B64(c[i] \div 4), B64((c[i] % 4) * 16 + (c[i + 1] \div 16)),
               B64((c[i + 1] % 16) * 4 + (c[i + 2] \div 64)), B64(c[i + 2] % 64)>>
             \o EncodeToString(c, i + 3)

\* A wrapping loop that cuts a character late.
RECURSIVE WrapLate(_)
WrapLate(encoded) ==
    IF Len(encoded) > 76
    THEN SubSeq(encoded, 1, 77) \o CRLF \o WrapLate(SubSeq(encoded, 78, Len(encoded)))
    ELSE encoded

\* "Write base64 in chunks of 76 characters"
RECURSIVE WrapBase64(_)
WrapBase64(encoded) ==
    IF Len(encoded) > 76
    THEN SubSeq(encoded, 1, 76) \o CRLF \o WrapBase64(SubSeq(encoded, 77, Len(encoded)))
    ELSE encoded

\* multipart.Writer.CreatePart: the delimiter line (after a line break, but for
\* the first part), the part's headers sorted by name, a blank line.
CreatePart(buf, headers) ==
    buf \o (IF buf = << >> THEN << >> ELSE CRLF) \o HeaderLine("--boundary")
        \o headers \o CRLF

TextPartHeaders ==
    HeaderLine("Content-Transfer-Encoding: quoted-printable")
    \o HeaderLine("Content-Type: text/plain; charset=utf-8")
AttachmentPartHeaders ==
    HeaderLine("Content-Disposition: attachment; filename=\"f\"")
    \o HeaderLine("Content-Transfer-Encoding: base64")
    \o HeaderLine("Content-Type: application/octet-stream")

\* The attachment loop on the multipart buffer: [err, buf].
RECURSIVE AttachParts(_, _, _)
AttachParts(atts, i, buf) ==
    IF i > Len(atts) THEN [err |-> "", buf |-> buf]
    ELSE IF atts[i].state = "missing" THEN [err |-> "open", buf |-> buf]
    ELSE IF atts[i].state = "unreadable" THEN [err |-> "read", buf |-> buf]
    ELSE AttachParts(atts, i + 1,
             CreatePart(buf, AttachmentPartHeaders)
             \o WrapBase64(EncodeToString(atts[i].content, 1)))

\* The headers writeMessage prints, byte by byte.
HeaderBytes(msg) ==
    HeaderLine("From: sender") \o HeaderLine("To: rcpt")
    \o (IF Len(msg.CC) > 0 THEN HeaderLine("Cc: cc") ELSE << >>)
    \o <<"Subject: ">> \o encodeSubject(msg.Subject) \o CRLF
    \o HeaderLine("Date: now")
    \o (IF msg.InReplyTo # "" THEN HeaderLine("In-Reply-To: id") ELSE << >>)
    \o (IF msg.References # "" THEN HeaderLine("References: id") ELSE << >>)
    \o HeaderLine("MIME-Version: 1.0")

\* writeMessage(w, msg) byte by byte: [err, stream], the stream being what
\* reached w when it returned.
writeMessageBytes(msg) ==
    IF Len(msg.Attachments) = 0
    THEN [err |-> "",
          stream |-> HeaderBytes(msg)
                     \o HeaderLine("Content-Type: text/plain; charset=utf-8")
                     \o HeaderLine("Content-Transfer-Encoding: quoted-printable")
                     \o CRLF \o msg.Body \o CRLF]
    ELSE LET head == HeaderBytes(msg)
                     \o HeaderLine("Content-Type: multipart/mixed; boundary=boundary")
                     \o CRLF
             a == AttachParts(msg.Attachments, 1, CreatePart(<< >>, TextPartHeaders) \o msg.Body)
         IN  IF a.err # "" THEN [err |-> a.err, stream |-> head]
             ELSE [err |-> "",
                   stream |-> head \o a.buf \o CRLF \o HeaderLine("--boundary--")]

\* ------------------------------------------------------------------------
\* Reading a composed message back: the MIME reader hands parseMessageBody
\* each part's body decoded from its Content-Transfer-Encoding
\* (mime/quotedprintable for "quoted-printable").
\* ------------------------------------------------------------------------

HexVal(c) ==
    CASE c \in Digits -> DigitVal(c)
      [] c \in {"a", "A"} -> 10 [] c \in {"b", "B"} -> 11 [] c \in {"c", "C"} -> 12
      [] c \in {"d", "D"} -> 13 [] c \in {"e", "E"} -> 14 [] c \in {"f", "F"} -> 15
      [] OTHER -> -1

\* The character of a byte value, for the values the inputs can spell.
Chr(n) ==
    CASE n = 68 -> "D" [] n = 74 -> "J" [] n = 164 -> "0xA4" [] n = 170 -> "0xAA"
      [] OTHER -> "0x??"

\* Bytes the quoted-printable reader refuses when they stand unescaped.
Unprintable == {"\f", "DEL"}
QPDiscard == {" ", "\t", "\r", "\n"}

RECURSIVE TrimRightDiscard(_)
TrimRightDiscard(line) ==
    IF Len(line) > 0 /\ line[Len(line)] \in QPDiscard
    THEN TrimRightDiscard(SubSeq(line, 1, Len(line) - 1)) ELSE line

\* The lines of s, each with its line feed; the last may have none.
RECURSIVE SplitLines(_, _, _)
SplitLines(s, i, cur) ==
    IF i > Len(s) THEN (IF cur = << >> THEN << >> ELSE <<cur>>)
    ELSE IF s[i] = "\n" THEN <<Append(cur, "\n")>> \o SplitLines(s, i + 1, << >>)
    ELSE SplitLines(s, i + 1, Append(cur, s[i]))

HasPrefix(s, pre) == Len(s) >= Len(pre) /\ SubSeq(s, 1, Len(pre)) = pre
HasSuffix(s, suf) == Len(s) >= Len(suf) /\ SubSeq(s, Len(s) - Len(suf) + 1, Len(s)) = suf

\* One line as the reader prepares it: trailing white space dropped, a final
\* "=" a soft line break, else the line ending put back.  [ok, line].
QPLine(whole) ==
    LET line == TrimRightDiscard(whole)
        rightStripped == SubSeq(whole, Len(line) + 1, Len(whole))
    IN  IF HasSuffix(line, <<"=">>)
        THEN [ok |-> \/ HasPrefix(rightStripped, <<"\n">>)
                     \/ HasPrefix(rightStripped, CRLF)
                     \/ (rightStripped = << >> /\ Len(line) > 1),
              line |-> SubSeq(line, 1, Len(line) - 1)]
        ELSE [ok |-> TRUE,
              line |-> line \o (IF HasSuffix(whole, CRLF) THEN CRLF
                                ELSE IF HasSuffix(whole, <<"\n">>) THEN <<"\n">>
                                ELSE << >>)]

\* The bytes of a prepared line decoded from position i on.  [ok, out].
RECURSIVE QPBytes(_, _, _)
QPBytes(line, i, out) ==
    IF i > Len(line) THEN [ok |-> TRUE, out |-> out]
    ELSE IF line[i] = "="
         THEN IF i + 2 <= Len(line) /\ HexVal(line[i + 1]) >= 0 /\ HexVal(line[i + 2]) >= 0
              THEN QPBytes(line, i + 3,
                       Append(out, Chr(16 * HexVal(line[i + 1]) + HexVal(line[i + 2]))))
              ELSE IF i + 1 <= Len(line) /\ line[i + 1] \notin {"\r", "\n"}
                   THEN QPBytes(line, i + 1, Append(out, "="))  \* a literal =
                   ELSE [ok |-> FALSE, out |-> out]
    ELSE IF line[i] \in Unprintable THEN [ok |-> FALSE, out |-> out]
    ELSE QPBytes(line, i + 1, Append(out, line[i]))

\* io.ReadAll of quotedprintable.NewReader over the lines from i on.
RECURSIVE QPDecodeLines(_, _, _)
QPDecodeLines(lines, i, out) ==
    IF i > Len(lines) THEN [ok |-> TRUE, out |-> out]
    ELSE LET l == QPLine(lines[i])
             b == QPBytes(l.line, 1, out)
         IN  IF ~b.ok \/ ~l.ok THEN [ok |-> FALSE, out |-> b.out]
             ELSE QPDecodeLines(lines, i + 1, b.out)
QPDecode(s) == QPDecodeLines(SplitLines(s, 1, << >>), 1, << >>)

\* What follows the first blank line of a stream.
AfterBlankLine(s) ==
    LET blank == {i \in 1..(Len(s) - 3) : SubSeq(s, i, i + 3) = CRLF \o CRLF}
    IN  IF blank = {} THEN << >>
        ELSE SubSeq(s, (CHOOSE i \in blank : \A j \in blank : i <= j) + 4, Len(s))

\* parseMessageBody on a stream composed without attachments: the reader
\* yields one text/plain part, its body decoded.  [text, html] as sequences.
ResolveComposed(stream) ==
    LET dec == QPDecode(AfterBlankLine(stream))
        r == [parses |-> TRUE, errAt |-> 0, ctype |-> "text/plain", blank |-> "crlf",
              parts |-> <<[ctype |-> "text/plain", data |-> "DECODED", readOk |-> dec.ok]>>]
        b == parseMessageBody(r)
    IN  [text |-> IF b.text = "DECODED" THEN dec.out ELSE << >>,
         html |-> IF b.html = "DECODED" THEN dec.out ELSE << >>]

\* ------------------------------------------------------------------------
\* Messages to compose
\* ------------------------------------------------------------------------

MaxBody == 3        \* longest body text
MaxSubject == 2     \* longest subject drawn from all of SubjectChars
MaxRun == 11        \* runs of one character in the long subjects
MaxContent == 115   \* most bytes of an attachment

BodyChars == {"a", "4", "=", " ", "\n", "\f"}
Bodies == SeqsOf(BodyChars, 1, MaxBody)

Repeat(c, n) == [i \in 1..n |-> c]
Subjects ==
    SeqsOf(SubjectChars, 0, MaxSubject)
    \cup {Repeat("U+00E9", MaxRun), <<"U+00E9">> \o Repeat("a", 6 * MaxRun),
          Repeat("a", 6 * MaxRun)}

\* A file of n bytes, and what opening and reading a path can give.
Content(n) == [i \in 1..n |-> (37 * i + n) % 256]
Files ==
    {[state |-> "ok", content |-> Content(n)] : n \in 0..MaxContent}
    \cup {[state |-> st, content |-> << >>] : st \in {"missing", "unreadable"}}

PlainMessage(subject, b, atts) ==
    [Subject |-> subject, Body |-> b, Attachments |-> atts, CC |-> << >>,
     InReplyTo |-> "", References |-> ""]

ComposeInputs ==
    {PlainMessage(<<"a">>, b, << >>) : b \in Bodies}
    \cup {[PlainMessage(su, <<"a">>, << >>) EXCEPT !.CC = cc, !.InReplyTo = re,
                                                    !.References = re] :
            su \in Subjects, cc \in {<< >>, <<"c@x">>}, re \in {"", "<id@x>"}}
    \cup {PlainMessage(<<"a">>, b, <<f>>) : b \in {<<"a">>, <<"a", "\n", "a">>}, f \in Files}
    \cup {PlainMessage(<<"a">>, <<"a">>, <<f, g>>) :
            f \in Files, g \in {h \in Files : Len(h.content) <= 1}}

ComposeIdle ==
    /\ cMsg = PlainMessage(<< >>, << >>, << >>)
    /\ cOut = [done |-> FALSE, err |-> "", stream |-> << >>]
    /\ cRes = [done |-> FALSE, text |-> << >>, html |-> << >>]

ComposeInit ==
    /\ cMsg \in ComposeInputs
    /\ cOut = [done |-> FALSE, err |-> "", stream |-> << >>]
    /\ cRes = [done |-> FALSE, text |-> << >>, html |-> << >>]

\* writeMessage(&buf, msg)
DoWriteMessage ==
    /\ ~cOut.done
    /\ LET w == writeMessageBytes(cMsg)
       IN  cOut' = [done |-> TRUE, err |-> w.err, stream |-> w.stream]
    /\ UNCHANGED <<cMsg, cRes>>

\* parseMessageBody of the stream just composed, for a message without
\* attachments.
DoResolveComposed ==
    /\ cOut.done /\ cOut.err = "" /\ Len(cMsg.Attachments) = 0
    /\ ~cRes.done
    /\ LET b == ResolveComposed(cOut.stream)
       IN  cRes' = [done |-> TRUE, text |-> b.text, html |-> b.html]
    /\ UNCHANGED <<cMsg, cOut>>

\* ------------------------------------------------------------------------
\* htmlToText, character by character
\* ------------------------------------------------------------------------

UpperToLower ==
    ("A" :> "a") @@ ("B" :> "b") @@ ("C" :> "c") @@ ("D" :> "d") @@ ("E" :> "e") @@ ("F"
    :> "f") @@ ("G" :> "g") @@ ("H" :> "h") @@ ("I" :> "i") @@ ("J" :> "j") @@ ("K" :>
    "k") @@ ("L" :> "l") @@ ("M" :> "m") @@ ("N" :> "n") @@ ("O" :> "o") @@ ("P" :> "p")
    @@ ("Q" :> "q") @@ ("R" :> "r") @@ ("S" :> "s") @@ ("T" :> "t") @@ ("U" :> "u") @@
    ("V" :> "v") @@ ("W" :> "w") @@ ("X" :> "x") @@ ("Y" :> "y") @@ ("Z" :> "z")
ToLower(c) == IF c \in DOMAIN UpperToLower THEN UpperToLower[c] ELSE c

AlphaNumeric ==
    {"a", "b", "c", "d", "e", "f", "g", "h", "i", "j", "k", "l", "m", "n", "o", "p",
    "q", "r", "s", "t", "u", "v", "w", "x", "y", "z", "A", "B", "C", "D", "E", "F", "G",
    "H", "I", "J", "K", "L", "M", "N", "O", "P", "Q", "R", "S", "T", "U", "V", "W", "X",
    "Y", "Z", "0", "1", "2", "3", "4", "5", "6", "7", "8", "9"}

\* Does the lower-case word stand at position i of s, letter case aside?
IsAt(s, i, word) ==
    /\ i >= 1 /\ i + Len(word) - 1 <= Len(s)
    /\ \A k \in 1..Len(word) : ToLower(s[i + k - 1]) = word[k]

\* The first position from i on whose character is in S; 0 if there is none.
NextIn(s, i, S) ==
    LET at == {j \in i..Len(s) : s[j] \in S}
    IN  IF at = {} THEN 0 ELSE CHOOSE j \in at : \A k \in at : j <= k

\* The first position from i on where word stands; 0 if there is none.
NextWord(s, i, word) ==
    LET at == {j \in i..Len(s) : IsAt(s, j, word)}
    IN  IF at = {} THEN 0 ELSE CHOOSE j \in at : \A k \in at : j <= k

\* (?is)<style[^>]*>.*?</style> and (?is)<script[^>]*>.*?</script>: the last
\* position of a match that starts at i, or 0.
BlockEnd(s, i, open, close) ==
    IF ~IsAt(s, i, open) THEN 0
    ELSE LET gt == NextIn(s, i + Len(open), {">"})
         IN  IF gt = 0 THEN 0
             ELSE LET c == NextWord(s, gt + 1, close)
                  IN  IF c = 0 THEN 0 ELSE c + Len(close) - 1
RECURSIVE RemoveBlocks(_, _, _, _)
RemoveBlocks(s, i, open, close) ==
    IF i > Len(s) THEN << >>
    ELSE LET e == BlockEnd(s, i, open, close)
         IN  IF e > 0 THEN RemoveBlocks(s, e + 1, open, close)
             ELSE <<s[i]>> \o RemoveBlocks(s, i + 1, open, close)
TagStyle == <<"<", "s", "t", "y", "l", "e">>
EndStyle == <<"<", "/", "s", "t", "y", "l", "e", ">">>
TagScript == <<"<", "s", "c", "r", "i", "p", "t">>
EndScript == <<"<", "/", "s", "c", "r", "i", "p", "t", ">">>

\* (?i)</(p|div|tr|li|h[1-6])>
BlockNames ==
    {<<"p">>, <<"d", "i", "v">>, <<"t", "r">>, <<"l", "i">>}
    \cup {<<"h", d>> : d \in {"1", "2", "3", "4", "5", "6"}}
BlockCloseEnd(s, i) ==
    LET fits == {n \in BlockNames : IsAt(s, i, <<"<", "/">> \o n \o <<">">>)}
    IN  IF fits = {} THEN 0 ELSE i + 2 + Len(CHOOSE n \in fits : TRUE)
RECURSIVE ReplaceBlockCloses(_, _)
ReplaceBlockCloses(s, i) ==
    IF i > Len(s) THEN << >>
    ELSE LET e == BlockCloseEnd(s, i)
         IN  IF e > 0 THEN <<"\n">> \o ReplaceBlockCloses(s, e + 1)
             ELSE <<s[i]>> \o ReplaceBlockCloses(s, i + 1)

\* (?i)<br\s*/?>
RegexpSpace == {"\t", "\n", "\f", "\r", " "}
BrEnd(s, i) ==
    IF ~IsAt(s, i, <<"<", "b", "r">>) THEN 0
    ELSE LET rest == {j \in (i + 3)..Len(s) : s[j] \notin RegexpSpace}
             j == IF rest = {} THEN 0 ELSE CHOOSE x \in rest : \A y \in rest : x <= y
         IN  IF j = 0 THEN 0
             ELSE IF s[j] = ">" THEN j
             ELSE IF s[j] = "/" /\ j < Len(s) /\ s[j + 1] = ">" THEN j + 1
             ELSE 0
RECURSIVE ReplaceBr(_, _)
ReplaceBr(s, i) ==
    IF i > Len(s) THEN << >>
    ELSE LET e == BrEnd(s, i)
         IN  IF e > 0 THEN <<"\n">> \o ReplaceBr(s, e + 1)
             ELSE <<s[i]>> \o ReplaceBr(s, i + 1)

\* (?i)<a[^>]+href=["']([^"']+)["'][^>]*>([^<]*)</a> matched at i with href=
\* standing at h: [ok, url, text, end].
Quotes == {"\"", "'"}
NoLink == [ok |-> FALSE, url |-> << >>, text |-> << >>, end |-> 0]
LinkWithHrefAt(s, i, h) ==
    IF ~(IsAt(s, h, <<"h", "r", "e", "f", "=">>) /\ h + 5 <= Len(s) /\ s[h + 5] \in Quotes)
    THEN NoLink
    ELSE LET q == NextIn(s, h + 6, Quotes)
         IN  IF q = 0 \/ q = h + 6 THEN NoLink
             ELSE LET gt == NextIn(s, q + 1, {">"})
                  IN  IF gt = 0 THEN NoLink
                      ELSE LET lt == NextIn(s, gt + 1, {"<"})
                           IN  IF lt = 0 \/ ~IsAt(s, lt, <<"<", "/", "a", ">">>) THEN NoLink
                               ELSE [ok |-> TRUE, url |-> SubSeq(s, h + 6, q - 1),
                                     text |-> SubSeq(s, gt + 1, lt - 1), end |-> lt + 3]
\* [^>]+ is greedy: of the places href= can stand, the last that leads to a
\* match is taken.
LinkAt(s, i) ==
    IF ~IsAt(s, i, <<"<", "a">>) THEN NoLink
    ELSE LET gt == NextIn(s, i + 2, {">"})
             last == IF gt = 0 THEN Len(s) ELSE gt - 1
             hs == {h \in (i + 3)..last : LinkWithHrefAt(s, i, h).ok}
         IN  IF hs = {} THEN NoLink
             ELSE LinkWithHrefAt(s, i, CHOOSE h \in hs : \A k \in hs : h >= k)
RECURSIVE ReplaceLinks(_, _)
ReplaceLinks(s, i) ==
    IF i > Len(s) THEN << >>
    ELSE LET l == LinkAt(s, i)
         IN  IF l.ok THEN l.text \o <<" ", "[">> \o l.url \o <<"]">>
                          \o ReplaceLinks(s, l.end + 1)
             ELSE <<s[i]>> \o ReplaceLinks(s, i + 1)

\* <[^>]+>
TagEnd(s, i) ==
    IF s[i] # "<" THEN 0
    ELSE LET gt == NextIn(s, i + 1, {">"})
         IN  IF gt > i + 1 THEN gt ELSE 0
RECURSIVE RemoveTags(_, _)
RemoveTags(s, i) ==
    IF i > Len(s) THEN << >>
    ELSE LET e == TagEnd(s, i)
         IN  IF e > 0 THEN RemoveTags(s, e + 1) ELSE <<s[i]>> \o RemoveTags(s, i + 1)

\* html.UnescapeString, for the named entities lt, gt, amp and quot: the name
\* is the run of letters and digits after "&" with a ";" that follows it; a
\* name that is no entity is tried by its prefixes, longest first.
EntityOf(name) ==
    CASE name \in {<<"l", "t">>, <<"l", "t", ";">>} -> "<"
      [] name \in {<<"g", "t">>, <<"g", "t", ";">>} -> ">"
      [] name \in {<<"a", "m", "p">>, <<"a", "m", "p", ";">>} -> "&"
      [] name \in {<<"q", "u", "o", "t">>, <<"q", "u", "o", "t", ";">>} -> "\""
      [] OTHER -> ""
longestEntityWithoutSemicolon == 6
\* [char, used]: the character an entity at i stands for and the number of
\* characters of s it takes, "&" included; used = 0 when there is no entity.
EntityAt(s, i) ==
    LET others == {j \in (i + 1)..Len(s) : s[j] \notin AlphaNumeric}
        stop == IF others = {} THEN 0 ELSE CHOOSE j \in others : \A k \in others : j <= k
        run == IF stop = 0 THEN Len(s) - i ELSE stop - i - 1
        n == IF stop # 0 /\ s[stop] = ";" THEN run + 1 ELSE run
        name == SubSeq(s, i + 1, i + n)
        maxLen == IF n - 1 > longestEntityWithoutSemicolon
                  THEN longestEntityWithoutSemicolon ELSE n - 1
        prefixes == {j \in 2..maxLen : EntityOf(SubSeq(name, 1, j)) # ""}
    IN  IF n = 0 THEN [char |-> "", used |-> 0]
        ELSE IF EntityOf(name) # "" THEN [char |-> EntityOf(name), used |-> n + 1]
        ELSE IF prefixes = {} THEN [char |-> "", used |-> 0]
        ELSE LET j == CHOOSE x \in prefixes : \A y \in prefixes : x >= y
             IN  [char |-> EntityOf(SubSeq(name, 1, j)), used |-> j + 1]
RECURSIVE UnescapeString(_, _)
UnescapeString(s, i) ==
    IF i > Len(s) THEN << >>
    ELSE IF s[i] = "&"
         THEN LET e == EntityAt(s, i)
              IN  IF e.used > 0 THEN <<e.char>> \o UnescapeString(s, i + e.used)
                  ELSE <<s[i]>> \o UnescapeString(s, i + 1)
    ELSE <<s[i]>> \o UnescapeString(s, i + 1)

\* [ \t]+ to one space
RECURSIVE CollapseSpaces(_, _)
CollapseSpaces(s, i) ==
    IF i > Len(s) THEN << >>
    ELSE IF s[i] \in {" ", "\t"}
         THEN (IF i > 1 /\ s[i - 1] \in {" ", "\t"} THEN << >> ELSE <<" ">>)
              \o CollapseSpaces(s, i + 1)
    ELSE <<s[i]>> \o CollapseSpaces(s, i + 1)

\* \n{3,} to two line feeds
RECURSIVE CollapseNewlines(_, _)
CollapseNewlines(s, i) ==
    IF i > Len(s) THEN << >>
    ELSE IF s[i] = "\n" /\ i > 2 /\ s[i - 1] = "\n" /\ s[i - 2] = "\n"
         THEN CollapseNewlines(s, i + 1)
    ELSE <<s[i]>> \o CollapseNewlines(s, i + 1)

\* strings.TrimSpace over every kind of white space
WhiteSpace == {"\t", "\n", "\f", "\r", " "}
TrimSpaceAll(s) ==
    LET black == {i \in 1..Len(s) : s[i] \notin WhiteSpace}
    IN  IF black = {} THEN << >>
        ELSE SubSeq(s, CHOOSE i \in black : \A j \in black : i <= j,
                       CHOOSE i \in black : \A j \in black : i >= j)

htmlToText(htmlContent) ==
    LET text1 == RemoveBlocks(htmlContent, 1, TagStyle, EndStyle)
        text2 == RemoveBlocks(text1, 1, TagScript, EndScript)
        text3 == ReplaceBlockCloses(text2, 1)
        text4 == ReplaceBr(text3, 1)
        text5 == ReplaceLinks(text4, 1)
        text6 == RemoveTags(text5, 1)
        text7 == UnescapeString(text6, 1)
        text8 == CollapseSpaces(text7, 1)
        text9 == CollapseNewlines(text8, 1)
    IN  TrimSpaceAll(text9)

\* The pieces the converter's inputs are put together from.
Lexemes ==
    {<<"<", "p", ">">>, <<"<", "/", "p", ">">>, <<"<", "b", ">">>, <<"A">>, <<" ">>,
    <<"\n">>, <<"&", "l", "t", ";">>, <<"&", "g", "t", ";">>, <<"&", "a", "m", "p",
    ";">>, <<"<", "b", "r", ">">>, <<"<">>, <<">">>}

\* The inputs of TestHtmlToText.
TestInputs ==
    {<<"<", "p", ">", "H", "e", "l", "l", "o", " ", "W", "o", "r", "l", "d", "<", "/",
       "p", ">">>,
     <<"<", "a", " ", "h", "r", "e", "f", "=", "\"", "h", "t", "t", "p", "s", ":", "/",
       "/", "e", "x", "a", "m", "p", "l", "e", ".", "c", "o", "m", "\"", ">", "C",
       "l", "i", "c", "k", " ", "h", "e", "r", "e", "<", "/", "a", ">">>,
     <<"L", "i", "n", "e", " ", "1", "<", "b", "r", ">", "L", "i", "n", "e", " ", "2",
       "<", "b", "r", "/", ">", "L", "i", "n", "e", " ", "3">>,
     <<"<", "s", "t", "y", "l", "e", ">", ".", "c", "l", "a", "s", "s", " ", "{", " ",
       "c", "o", "l", "o", "r", ":", " ", "r", "e", "d", ";", " ", "}", "<", "/",
       "s", "t", "y", "l", "e", ">", "<", "p", ">", "C", "o", "n", "t", "e", "n",
       "t", "<", "/", "p", ">">>,
     <<"<", "s", "c", "r", "i", "p", "t", ">", "a", "l", "e", "r", "t", "(", "'", "t",
       "e", "s", "t", "'", ")", ";", "<", "/", "s", "c", "r", "i", "p", "t", ">",
       "<", "p", ">", "C", "o", "n", "t", "e", "n", "t", "<", "/", "p", ">">>,
     <<"<", "p", ">", "H", "e", "l", "l", "o", " ", "&", "a", "m", "p", ";", " ", "W",
       "o", "r", "l", "d", " ", "&", "l", "t", ";", "t", "e", "s", "t", "&", "g",
       "t", ";", "<", "/", "p", ">">>,
     <<"<", "d", "i", "v", ">", "B", "l", "o", "c", "k", " ", "1", "<", "/", "d", "i",
       "v", ">", "<", "d", "i", "v", ">", "B", "l", "o", "c", "k", " ", "2", "<",
       "/", "d", "i", "v", ">">>,
     <<"<", "h", "1", ">", "T", "i", "t", "l", "e", "<", "/", "h", "1", ">", "<", "p",
       ">", "C", "o", "n", "t", "e", "n", "t", "<", "/", "p", ">">>,
     <<"<", "u", "l", ">", "<", "l", "i", ">", "I", "t", "e", "m", " ", "1", "<", "/",
       "l", "i", ">", "<", "l", "i", ">", "I", "t", "e", "m", " ", "2", "<", "/",
       "l", "i", ">", "<", "/", "u", "l", ">">>,
     <<>>}

\* <p>Hello &amp; World</p><a href="https://x.com">Link</a>
SpecExample ==
    <<"<", "p", ">", "H", "e", "l", "l", "o", " ", "&", "a", "m", "p", ";", " ", "W",
    "o", "r", "l", "d", "<", "/", "p", ">", "<", "a", " ", "h", "r", "e", "f", "=",
    "\"", "h", "t", "t", "p", "s", ":", "/", "/", "x", ".", "c", "o", "m", "\"", ">",
    "L", "i", "n", "k", "<", "/", "a", ">">>
SpecExampleText ==
    <<"H", "e", "l", "l", "o", " ", "&", " ", "W", "o", "r", "l", "d", "\n", "\n", "L",
    "i", "n", "k", " ", "[", "h", "t", "t", "p", "s", ":", "/", "/", "x", ".", "c", "o",
    "m", "]">>

MaxLexemes == 3    \* most pieces in a generated input

RECURSIVE Flatten(_)
Flatten(q) == IF q = << >> THEN << >> ELSE Head(q) \o Flatten(Tail(q))

\* Paragraph texts with what they read as once their entities are decoded,
\* link targets and link texts.
ParagraphTexts ==
    {[html |-> <<"A">>, text |-> <<"A">>],
     [html |-> <<"A", "&", "a", "m", "p", ";", "A">>, text |-> <<"A", "&", "A">>],
     [html |-> <<"1", "&", "l", "t", ";", "2">>, text |-> <<"1", "<", "2">>]}
Urls == {<<"U">>, <<"h", ":", "/", "x">>}
LinkTexts == {<<"T">>, <<"T", " ", "T">>}
ParagraphLink(a, u, t) ==
    <<"<", "p", ">">> \o a \o <<"<", "/", "p", ">">>
    \o <<"<", "a", " ", "h", "r", "e", "f", "=", "\"">> \o u \o <<"\"", ">">>
    \o t \o <<"<", "/", "a", ">">>
ParagraphLinks ==
    {ParagraphLink(a.html, u, t) : a \in ParagraphTexts, u \in Urls, t \in LinkTexts}
    \cup {SpecExample}

HtmlInputs ==
    {Flatten(q) : q \in SeqsOf(Lexemes, 0, MaxLexemes)} \cup TestInputs \cup ParagraphLinks

HtmlIdle == hIn = << >> /\ hStep = 0 /\ hOnce = << >> /\ hTwice = << >>
HtmlInit == hIn \in HtmlInputs /\ hStep = 0 /\ hOnce = << >> /\ hTwice = << >>

\* htmlToText of an HTML body
DoHtmlToText ==
    /\ hStep = 0
    /\ hOnce' = htmlToText(hIn)
    /\ hStep' = 1
    /\ UNCHANGED <<hIn, hTwice>>

\* htmlToText of a text that htmlToText produced
DoHtmlToTextAgain ==
    /\ hStep = 1
    /\ hTwice' = htmlToText(hOnce)
    /\ hStep' = 2
    /\ UNCHANGED <<hIn, hOnce>>

\* ------------------------------------------------------------------------
\* Idempotency keys (internal/config/config.go) and keyed sends
\* ------------------------------------------------------------------------

idempotencyTTL == 24 * 3600    \* seconds
IdemKeys == {"k1", "k2"}
MaxTicks == 4                  \* how often the clock is moved
MaxSends == 2                  \* invocations of mail send
ClockSteps == {1, idempotencyTTL - 1, idempotencyTTL}

\* A store without keys; -1 stands for a key that is not in the map.
NoKeys == [k \in IdemKeys |-> -1]

\* loadIdempotencyStore: a missing file and one that does not parse both give
\* an empty store.
loadIdempotencyStore(file) == IF file.state = "json" THEN file.keys ELSE NoKeys

\* idempotencyStore.save at time t: expired keys are dropped, the rest written.
save(keys, t) ==
    [state |-> "json",
     keys |-> [k \in IdemKeys |->
                 IF keys[k] >= 0 /\ t - keys[k] > idempotencyTTL THEN -1 ELSE keys[k]]]

\* A check that lets a key run out one second early.
CheckExpiringEarly(file, key, t) ==
    IF key = "" THEN FALSE
    ELSE LET keys == loadIdempotencyStore(file)
         IN  IF keys[key] < 0 THEN FALSE
             ELSE IF t - keys[key] >= idempotencyTTL THEN FALSE
             ELSE TRUE

CheckIdempotencyKey(file, key, t) ==
    IF key = "" THEN FALSE
    ELSE LET keys == loadIdempotencyStore(file)
         IN  IF keys[key] < 0 THEN FALSE
             ELSE IF t - keys[key] > idempotencyTTL THEN FALSE
             ELSE TRUE

\* RecordIdempotencyKey at time t: the file it leaves.
RecordIdempotencyKey(file, key, t) ==
    IF key = "" THEN file
    ELSE save([loadIdempotencyStore(file) EXCEPT ![key] = t], t)

IdemIdle ==
    /\ now = 0 /\ ticks = 0
    /\ idemFile = [state |-> "absent", keys |-> NoKeys]
    /\ lastCheck = [done |-> FALSE, key |-> "", at |-> 0, recorded |-> -1, used |-> FALSE]
    /\ recordedAt = NoKeys
    /\ sends = << >>

IdemInit ==
    /\ now = 0 /\ ticks = 0
    /\ idemFile \in {[state |-> st, keys |-> NoKeys] : st \in {"absent", "corrupt"}}
    /\ lastCheck = [done |-> FALSE, key |-> "", at |-> 0, recorded |-> -1, used |-> FALSE]
    /\ recordedAt = NoKeys
    /\ sends = << >>

\* time.Now().Unix() moves on
Tick ==
    /\ ticks < MaxTicks
    /\ \E d \in ClockSteps : now' = now + d
    /\ ticks' = ticks + 1
    /\ UNCHANGED <<idemFile, lastCheck, recordedAt, sends>>

\* config.CheckIdempotencyKey(key); with the answer goes the time the key was
\* last recorded before the check.
DoCheckIdempotencyKey ==
    /\ \E key \in IdemKeys \cup {""} :
          lastCheck' = [done |-> TRUE, key |-> key, at |-> now,
                        recorded |-> IF key = "" THEN -1 ELSE recordedAt[key],
                        used |-> CheckIdempotencyKey(idemFile, key, now)]
    /\ UNCHANGED <<now, ticks, idemFile, recordedAt, sends>>

\* config.RecordIdempotencyKey(key); recordedAt remembers when each key was
\* last recorded.
DoRecordIdempotencyKey ==
    /\ \E key \in IdemKeys \cup {""} :
          /\ idemFile' = RecordIdempotencyKey(idemFile, key, now)
          /\ recordedAt' = IF key = "" THEN recordedAt ELSE [recordedAt EXCEPT ![key] = now]
    /\ UNCHANGED <<now, ticks, lastCheck, sends>>

\* MailSendCmd.Run for an invocation that carries an idempotency key: the
\* message is built and handed to smtpClient.Send; the outcome is "sent" or the
\* error of the SMTP session.
DoMailSendKeyed ==
    /\ Len(sends) < MaxSends
    /\ \E key \in IdemKeys \cup {""}, smtpOk \in BOOLEAN :
          sends' = Append(sends, [key |-> key, at |-> now, handed |-> TRUE,
                                  res |-> IF smtpOk THEN "sent" ELSE "error"])
    /\ UNCHANGED <<now, ticks, idemFile, lastCheck, recordedAt>>

\* ------------------------------------------------------------------------
\* One invocation after another: the mailbox stays on the server, flags and
\* all, and each invocation selects it anew.
\* ------------------------------------------------------------------------

MaxOps == 3    \* invocations in a row
SeqIdLists == SeqsOf(GoodIdStrings, 1, 2)

SeqIdle == prevMbox = << >> /\ nOps = 0

SeqInit ==
    /\ ids \in SeqIdLists
    /\ bOp = "none"
    /\ bArgs = [permanent |-> FALSE, f |-> NoFlags]
    /\ log = << >>
    /\ mbox = InitMbox
    /\ dest = {}
    /\ bResult = "none"
    /\ prevMbox = InitMbox
    /\ nOps = 1

\* The command is run again with other ids, on a new session.
NextInvocation ==
    /\ bOp # "none"
    /\ nOps < MaxOps
    /\ ids' \in SeqIdLists
    /\ bOp' = "none"
    /\ bArgs' = [permanent |-> FALSE, f |-> NoFlags]
    /\ log' = << >>
    /\ bResult' = "none"
    /\ prevMbox' = mbox
    /\ nOps' = nOps + 1
    /\ UNCHANGED <<mbox, dest>>

\* ------------------------------------------------------------------------
\* The text of --query: splitQueryParts, parseQueryString and
\* parseQueryToSearchOptions (internal/cli/mail.go), and the query branch of
\* the batch commands run on the messages the parsed filters select
\* ------------------------------------------------------------------------

MaxPieces == 3    \* most pieces a query text is put together from

\* splitQueryParts: cut at the spaces outside double quotes; the quotes stay.
RECURSIVE splitQueryFrom(_, _, _, _)
splitQueryFrom(q, i, inQuotes, current) ==
    LET flush == IF Len(current) > 0 THEN <<current>> ELSE << >>
    IN  IF i > Len(q) THEN flush
        ELSE IF q[i] = "\"" THEN splitQueryFrom(q, i + 1, ~inQuotes, Append(current, q[i]))
        ELSE IF q[i] = " " /\ ~inQuotes THEN flush \o splitQueryFrom(q, i + 1, inQuotes, << >>)
        ELSE splitQueryFrom(q, i + 1, inQuotes, Append(current, q[i]))
splitQueryParts(q) == splitQueryFrom(q, 1, FALSE, << >>)

LowerAll(s) == [i \in 1..Len(s) |-> ToLower(s[i])]
UpperAll(s) == [i \in 1..Len(s) |-> IF \E u \in DOMAIN UpperToLower : UpperToLower[u] = s[i]
                                    THEN CHOOSE u \in DOMAIN UpperToLower : UpperToLower[u] = s[i]
                                    ELSE s[i]]
TrimPrefix(s, pre) == IF HasPrefix(s, pre) THEN SubSeq(s, Len(pre) + 1, Len(s)) ELSE s

\* strings.Trim(s, "\"")
TrimQuotes(s) ==
    LET keep == {i \in 1..Len(s) : s[i] # "\""}
    IN  IF keep = {} THEN << >>
        ELSE SubSeq(s, CHOOSE i \in keep : \A j \in keep : i <= j,
                       CHOOSE i \in keep : \A j \in keep : i >= j)

FromPrefix == <<"f", "r", "o", "m", ":">>
SubjectPrefix == <<"s", "u", "b", "j", "e", "c", "t", ":">>
BodyPrefix == <<"b", "o", "d", "y", ":">>

\* The value of a prefixed part: the prefix is taken off when it is written
\* all in lower case or all in upper case, then the quotes around it.
PrefixedValue(part, pre) == TrimQuotes(TrimPrefix(TrimPrefix(part, pre), UpperAll(pre)))

JoinSpace(list) ==
    IF list = << >> THEN << >>
    ELSE LET RECURSIVE join(_)
             join(i) == IF i = Len(list) THEN list[i]
                        ELSE list[i] \o <<" ">> \o join(i + 1)
         IN  join(1)

\* parseQueryString: [from, subject, body].  A later from: or subject: part
\* replaces an earlier one; body terms are collected and joined by a space.
RECURSIVE parseQueryParts(_, _, _)
parseQueryParts(parts, i, acc) ==
    IF i > Len(parts) THEN [from |-> acc.from, subject |-> acc.subject,
                            body |-> JoinSpace(acc.bodyParts)]
    ELSE LET part == TrimSpace(parts[i])
         IN  IF part = << >> THEN parseQueryParts(parts, i + 1, acc)
             ELSE IF HasPrefix(LowerAll(part), FromPrefix)
             THEN parseQueryParts(parts, i + 1,
                                  [acc EXCEPT !.from = PrefixedValue(part, FromPrefix)])
             ELSE IF HasPrefix(LowerAll(part), SubjectPrefix)
             THEN parseQueryParts(parts, i + 1,
                                  [acc EXCEPT !.subject = PrefixedValue(part, SubjectPrefix)])
             ELSE IF HasPrefix(LowerAll(part), BodyPrefix)
             THEN parseQueryParts(parts, i + 1,
                      [acc EXCEPT !.bodyParts = Append(@, PrefixedValue(part, BodyPrefix))])
             ELSE parseQueryParts(parts, i + 1,
                      [acc EXCEPT !.bodyParts = Append(@, TrimQuotes(part))])
parseQueryString(q) ==
    parseQueryParts(splitQueryParts(q), 1, [from |-> << >>, subject |-> << >>, bodyParts |-> << >>])

\* A filter text as the search model's atom: the empty text, one character,
\* or a longer phrase, which no message of the mailbox holds.
Text(s) == IF s = << >> THEN "" ELSE IF Len(s) = 1 THEN s[1] ELSE "phrase"

\* parseQueryToSearchOptions
parseQueryToSearchOptions(q) ==
    LET p == parseQueryString(q)
    IN  [Query |-> Text(p.body), From |-> Text(p.from), To |-> "", Subject |-> Text(p.subject),
         Body |-> "", Since |-> << >>, Before |-> << >>, HasAttachments |-> FALSE,
         LargerThan |-> 0, SmallerThan |-> 0, UseOr |-> FALSE, Negate |-> FALSE]

\* What the messages of the mailbox hold, by uid.
MailboxMessage(uid) ==
    IF uid = 1
    THEN [body |-> {"a"}, date |-> 20240101, size |-> 100,
          header |-> ("From" :> "f") @@ ("To" :> "t") @@ ("Subject" :> "s")
                     @@ ("Content-Type" :> "text/plain")]
    ELSE [body |-> {"b"}, date |-> 20240201, size |-> 100,
          header |-> ("From" :> "g") @@ ("To" :> "t") @@ ("Subject" :> "r")
                     @@ ("Content-Type" :> "text/plain")]

\* The server's answer to the SEARCH the query makes.
Found(q, mb) ==
    {i \in 1..Len(mb) :
        Matches(buildSearchCriteria(parseQueryToSearchOptions(q)), MailboxMessage(mb[i].uid))}

QueryPieces ==
    {<<" ">>, <<"\"">>, <<"a">>, <<"f">>, FromPrefix, <<"F", "r", "o", "m", ":">>,
     SubjectPrefix, BodyPrefix}
QueryTexts == {Flatten(l) : l \in SeqsOf(QueryPieces, 0, MaxPieces)}

QueryTextInit ==
    /\ ids \in {<< >>, <<<<"2">>>>}
    /\ query \in QueryTexts
    /\ bOp = "none"
    /\ bArgs = [permanent |-> FALSE, f |-> NoFlags]
    /\ log = << >>
    /\ mbox = InitMbox
    /\ dest = {}
    /\ bResult = "none"

\* "provide message ID(s) or use --query to match messages"
NothingToDo == Len(ids) = 0 /\ query = << >>
Usage(op) ==
    QueryRan(op, [permanent |-> FALSE, f |-> NoFlags], [Session EXCEPT !.res = "usage"], ids)

\* The ids a command goes on with: those of the search when a query is given.
ResolveIds(st, failAt) ==
    IF query # << >> THEN ResolveQuery(st, ids, Found(query, st.mbox), failAt)
    ELSE [st |-> st, ids |-> ids, go |-> TRUE]

\* MailDeleteCmd.Run
DeleteRun ==
    /\ bOp = "none"
    /\ IF NothingToDo THEN Usage("delete")
       ELSE \E permanent \in BOOLEAN, failAt \in 0..MaxQueryCmds :
               LET q == ResolveIds(Session, failAt)
               IN  QueryRan("delete", [permanent |-> permanent, f |-> NoFlags],
                            IF q.go THEN DeleteMessages(q.st, q.ids, permanent, failAt)
                            ELSE q.st,
                            q.ids)
    /\ UNCHANGED query

\* MailMoveCmd.Run
MoveRun ==
    /\ bOp = "none"
    /\ IF NothingToDo THEN Usage("move")
       ELSE \E failAt \in 0..MaxQueryCmds :
               LET q == ResolveIds(Session, failAt)
               IN  QueryRan("move", [permanent |-> FALSE, f |-> NoFlags],
                            IF q.go THEN MoveMessages(q.st, q.ids, failAt) ELSE q.st,
                            q.ids)
    /\ UNCHANGED query

\* MailFlagCmd.Run
FlagRun ==
    /\ bOp = "none"
    /\ IF NothingToDo THEN Usage("flag")
       ELSE \E f \in FlagArgs \ {NoFlags}, failAt \in 0..MaxQueryCmds :
               LET q == ResolveIds(Session, failAt)
               IN  QueryRan("flag", [permanent |-> FALSE, f |-> f],
                            IF q.go THEN SetFlagsMultiple(q.st, q.ids, f, failAt) ELSE q.st,
                            q.ids)
    /\ UNCHANGED query

QueryIdle == query = << >>
RaceIdle == procs = << >>
ConnIdle == conn = << >>
DoctorIdle == doctor = << >>
CtxIdle == ctx = << >>
BookIdle == book = << >>
LateIdle == QueryIdle /\ RaceIdle /\ ConnIdle /\ DoctorIdle /\ CtxIdle /\ BookIdle

\* ------------------------------------------------------------------------
\* Processes sharing the idempotency ledger: each checks its key and, when
\* the key is not used, records it (internal/config/config.go)
\* ------------------------------------------------------------------------

NumProcs == 2         \* processes running at once
MaxRaceTicks == 2     \* how often the clock is moved while they run
Procs == 1..NumProcs

\* A check that records the key in the same step.
CheckReserving(file, key, t) ==
    [used |-> CheckIdempotencyKey(file, key, t), file |-> RecordIdempotencyKey(file, key, t)]

\* One call of CheckIdempotencyKey: its answer and the file it leaves.
CheckCall(file, key, t) ==
    [used |-> CheckIdempotencyKey(file, key, t), file |-> file]

NotStarted == [pc |-> "start", key |-> "", used |-> FALSE, clean |-> FALSE, keys |-> NoKeys]

RaceInit ==
    /\ now = 0 /\ ticks = 0
    /\ idemFile \in {[state |-> st, keys |-> NoKeys] : st \in {"absent", "corrupt"}}
    /\ lastCheck = [done |-> FALSE, key |-> "", at |-> 0, recorded |-> -1, used |-> FALSE]
    /\ recordedAt = NoKeys
    /\ sends = << >>
    /\ procs = [p \in Procs |-> NotStarted]

RaceTick ==
    /\ ticks < MaxRaceTicks
    /\ \E d \in ClockSteps : now' = now + d
    /\ ticks' = ticks + 1
    /\ UNCHANGED <<idemFile, lastCheck, recordedAt, sends, procs>>

\* Process p calls CheckIdempotencyKey(key); clean notes that no process had
\* recorded the key by then.
ProcCheck(p) ==
    /\ procs[p].pc = "start"
    /\ \E key \in IdemKeys :
          LET r == CheckCall(idemFile, key, now)
          IN  /\ procs' = [procs EXCEPT ![p] = [pc |-> "checked", key |-> key, used |-> r.used,
                                                clean |-> recordedAt[key] = -1,
                                                keys |-> NoKeys]]
              /\ idemFile' = r.file
    /\ UNCHANGED <<now, ticks, lastCheck, recordedAt, sends>>

\* The key was used: the process ends without recording.
ProcSkip(p) ==
    /\ procs[p].pc = "checked" /\ procs[p].used
    /\ procs' = [procs EXCEPT ![p].pc = "done"]
    /\ UNCHANGED idemVars

\* RecordIdempotencyKey, first half: the store is loaded and the key set.
ProcRecordLoad(p) ==
    /\ procs[p].pc = "checked" /\ ~procs[p].used
    /\ procs' = [procs EXCEPT ![p].pc = "loaded",
                              ![p].keys = [loadIdempotencyStore(idemFile)
                                             EXCEPT ![procs[p].key] = now]]
    /\ UNCHANGED idemVars

\* RecordIdempotencyKey, second half: store.save() writes the file.
ProcRecordSave(p) ==
    /\ procs[p].pc = "loaded"
    /\ idemFile' = save(procs[p].keys, now)
    /\ recordedAt' = [recordedAt EXCEPT ![procs[p].key] = now]
    /\ procs' = [procs EXCEPT ![p].pc = "done"]
    /\ UNCHANGED <<now, ticks, lastCheck, sends>>

\* ------------------------------------------------------------------------
\* config doctor (internal/cli/config.go ConfigDoctorCmd.Run)
\* ------------------------------------------------------------------------

\* What the command finds: the configuration, the keyring, and what each
\* network attempt meets.  The port probes and the later dials are separate
\* attempts, so each has its own outcome.
DoctorEnvs ==
    [configExists : BOOLEAN, configValid : BOOLEAN, hasEmail : BOOLEAN,
     hasPassword : BOOLEAN, imapPort : BOOLEAN, smtpPort : BOOLEAN,
     imapConnect : BOOLEAN, smtpDial : BOOLEAN, startTLS : BOOLEAN, auth : BOOLEAN]

Check(name, status, message) == [name |-> name, status |-> status, message |-> message]
Ok(name) == Check(name, "ok", "")

\* Checks 1 to 7, in the order they are added.
ChecksBeforeSMTP(e) ==
    <<IF e.configExists THEN Ok("Config file exists")
      ELSE Check("Config file exists", "fail", "not found")>>
    \o (IF ~e.configExists THEN << >>
        ELSE IF e.configValid THEN <<Ok("Config valid")>>
        ELSE <<Check("Config valid", "fail", "load error")>>)
    \o <<IF e.hasEmail THEN Check("Email configured", "ok", "email")
         ELSE Check("Email configured", "fail", "no email address set")>>
    \o <<IF ~e.hasEmail
         THEN Check("Password in keyring", "fail", "cannot check - email not configured")
         ELSE IF e.hasPassword THEN Ok("Password in keyring")
         ELSE Check("Password in keyring", "fail", "password not found in keyring")>>
    \o <<IF e.imapPort THEN Check("IMAP port reachable", "ok", "imapAddr")
         ELSE Check("IMAP port reachable", "fail", "cannot connect")>>
    \o <<IF e.smtpPort THEN Check("SMTP port reachable", "ok", "smtpAddr")
         ELSE Check("SMTP port reachable", "fail", "cannot connect")>>
    \o <<IF ~e.hasEmail
         THEN Check("IMAP login succeeds", "fail", "cannot test - email not configured")
         ELSE IF e.hasPassword /\ e.imapConnect THEN Ok("IMAP login succeeds")
         ELSE Check("IMAP login succeeds", "fail", "connect error")>>

\* Check 8: [check, dialed], dialed telling whether smtp.Dial was called.
SMTPConnectionCheck(e) ==
    LET name == "SMTP connection succeeds"
    IN  IF ~e.hasEmail
        THEN [check |-> Check(name, "fail", "cannot test - email not configured"),
              dialed |-> FALSE]
        ELSE IF ~e.hasPassword
        THEN [check |-> Check(name, "fail", "cannot test - password not available"),
              dialed |-> FALSE]
        ELSE IF ~e.smtpDial THEN [check |-> Check(name, "fail", "dial error"), dialed |-> TRUE]
        ELSE IF ~e.startTLS
        THEN [check |-> Check(name, "fail", "STARTTLS failed"), dialed |-> TRUE]
        ELSE IF ~e.auth THEN [check |-> Check(name, "fail", "auth error"), dialed |-> TRUE]
        ELSE [check |-> Ok(name), dialed |-> TRUE]

DoctorInit ==
    doctor \in {[done |-> FALSE, env |-> e, checks |-> << >>, dialed |-> FALSE, err |-> ""] :
                   e \in DoctorEnvs}

\* pm-cli config doctor
DoConfigDoctor ==
    /\ ~doctor.done
    /\ LET c8 == SMTPConnectionCheck(doctor.env)
       IN  doctor' = [doctor EXCEPT !.done = TRUE,
                                    !.checks = Append(ChecksBeforeSMTP(doctor.env), c8.check),
                                    !.dialed = c8.dialed,
                                    !.err = ""]

\* ------------------------------------------------------------------------
\* NewContext (internal/cli/cli.go), config.Load and config.Exists
\* (internal/config/config.go)
\* ------------------------------------------------------------------------

\* A config file: not there, good YAML, bad YAML, or there but unreadable.
\* "nodir": the user's config directory cannot be determined.
ConfigFileStates == {"absent", "valid", "invalid", "unreadable"}
GlobalsValues ==
    [JSON : BOOLEAN, HelpJSON : BOOLEAN, Config : {"", "given.yaml"},
     Verbose : BOOLEAN, Quiet : BOOLEAN]

\* config.Load(path): [cfg, err]; cfg is "nil" or the file's configuration.
Load(path, files) ==
    LET f == IF path = "" THEN files.default ELSE files.given
    IN  IF f = "valid" THEN [cfg |-> "loaded", err |-> ""]
        ELSE IF f = "nodir" THEN [cfg |-> "nil", err |-> "config directory"]
        ELSE IF f = "absent" THEN [cfg |-> "nil", err |-> "not found"]
        ELSE IF f = "unreadable" THEN [cfg |-> "nil", err |-> "read"]
        ELSE [cfg |-> "nil", err |-> "parse"]

\* config.Exists(): the default path can be stat'ed.
Exists(files) == files.default \notin {"absent", "nodir"}

\* NewContext(globals): [err, config].
NewContext(globals, files) ==
    LET none == [cfg |-> "nil", err |-> ""]
        l == IF globals.Config # "" THEN Load(globals.Config, files)
             ELSE IF Exists(files) THEN Load("", files)
             ELSE none
    IN  [err |-> "",
         config |-> IF l.err # "" /\ l.cfg = "nil" THEN "default" ELSE l.cfg]

CtxInit ==
    ctx \in {[done |-> FALSE, globals |-> g, files |-> [default |-> d, given |-> f],
              err |-> "", config |-> "nil"] :
                g \in GlobalsValues, d \in ConfigFileStates \cup {"nodir"}, f \in ConfigFileStates}

DoNewContext ==
    /\ ~ctx.done
    /\ LET r == NewContext(ctx.globals, ctx.files)
       IN  ctx' = [ctx EXCEPT !.done = TRUE, !.err = r.err, !.config = r.config]

\* ------------------------------------------------------------------------
\* The contact store (internal/contacts/contacts.go): Add, Remove, Update
\* ------------------------------------------------------------------------

\* strings.EqualFold, for the letters of UpperToLower
EqualFold(x, y) == LowerAll(x) = LowerAll(y)

\* The first contact whose email equals email under folding, 0 if none.
IndexOfEmail(list, email) ==
    LET hits == {i \in 1..Len(list) : EqualFold(list[i].Email, email)}
    IN  IF hits = {} THEN 0 ELSE CHOOSE i \in hits : \A j \in hits : i <= j

\* An Add whose duplicate check compares the emails letter for letter.
AddComparingExactly(list, emailArg, nameArg, saveOk) ==
    LET email == TrimSpace(LowerAll(emailArg))
        name == TrimSpace(nameArg)
    IN  IF email = << >> THEN [contacts |-> list, err |-> "email is required"]
        ELSE IF \E i \in 1..Len(list) : list[i].Email = email
        THEN [contacts |-> list, err |-> "already exists"]
        ELSE [contacts |-> Append(list, [Email |-> email, Name |-> name]),
              err |-> IF saveOk THEN "" ELSE "save"]

\* Store.Add(email, name): [contacts, err]; saveOk is whether Save succeeds.
Add(list, emailArg, nameArg, saveOk) ==
    LET email == TrimSpace(LowerAll(emailArg))
        name == TrimSpace(nameArg)
    IN  IF email = << >> THEN [contacts |-> list, err |-> "email is required"]
        ELSE IF IndexOfEmail(list, email) # 0
        THEN [contacts |-> list, err |-> "already exists"]
        ELSE [contacts |-> Append(list, [Email |-> email, Name |-> name]),
              err |-> IF saveOk THEN "" ELSE "save"]

\* Store.Remove(email)
Remove(list, emailArg, saveOk) ==
    LET i == IndexOfEmail(list, TrimSpace(LowerAll(emailArg)))
    IN  IF i = 0 THEN [contacts |-> list, err |-> "not found"]
        ELSE [contacts |-> SubSeq(list, 1, i - 1) \o SubSeq(list, i + 1, Len(list)),
              err |-> IF saveOk THEN "" ELSE "save"]

\* Store.Update(email, name)
Update(list, emailArg, nameArg, saveOk) ==
    LET i == IndexOfEmail(list, TrimSpace(LowerAll(emailArg)))
    IN  IF i = 0 THEN [contacts |-> list, err |-> "not found"]
        ELSE [contacts |-> [list EXCEPT ![i].Name = TrimSpace(nameArg)],
              err |-> IF saveOk THEN "" ELSE "save"]

MaxStored == 2    \* most contacts of the store as it is loaded

\* Arguments: emails in either case, with spaces around them, empty or blank.
EmailArgs ==
    {<< >>, <<" ">>, <<"a">>, <<"A">>, <<" ", "a">>, <<"A", " ">>, <<"b">>, <<"B">>, <<"c">>}
NameArgs == {<< >>, <<"n">>, <<"n", " ">>}

\* A loaded store holds what earlier Adds wrote or what was put in the file
\* by hand: lower-case or upper-case emails, no two equal under folding.
StoredContacts == [Email : {<<"a">>, <<"A">>, <<"b">>}, Name : {<< >>, <<"n">>}]
WithoutDuplicates(list) ==
    \A i, j \in 1..Len(list) : i # j => ~EqualFold(list[i].Email, list[j].Email)
Stores == {l \in SeqsOf(StoredContacts, 0, MaxStored) : WithoutDuplicates(l)}

BookInit ==
    book \in {[contacts |-> l, op |-> "none", arg |-> << >>, err |-> "", before |-> l] :
                 l \in Stores}

Called(op, arg, r) ==
    book' = [contacts |-> r.contacts, op |-> op, arg |-> arg, err |-> r.err,
             before |-> book.contacts]

DoAdd ==
    \E email \in EmailArgs, name \in NameArgs, saveOk \in BOOLEAN :
        Called("add", email, Add(book.contacts, email, name, saveOk))

DoRemove ==
    \E email \in EmailArgs, saveOk \in BOOLEAN :
        Called("remove", email, Remove(book.contacts, email, saveOk))

DoUpdate ==
    \E email \in EmailArgs, name \in NameArgs, saveOk \in BOOLEAN :
        Called("update", email, Update(book.contacts, email, name, saveOk))

\* ------------------------------------------------------------------------
\* The IMAP session of one command invocation: the handlers' NewClient,
\* Connect, defer Close prologue (internal/cli/mail.go, config.go) and
\* Client.Connect, Client.Close (internal/imap/client.go)
\* ------------------------------------------------------------------------

MaxWork == 3    \* most operations a handler runs on its session

\* The handlers that connect to the IMAP server.
Handlers ==
    {"mail list", "mail read", "mail delete", "mail move", "mail flag", "mail search",
     "mail reply", "mail forward", "mail download", "draft list", "draft create",
     "draft edit", "draft delete", "config validate", "config doctor"}

\* Client.Connect: the password lookup, the dial or the login may fail; a
\* failed login closes the connection it was made on.  c.client is set only
\* when all three succeeded.
Connect(c, outcome) ==
    IF outcome = "ok"
    THEN [c EXCEPT !.client = TRUE, !.dialed = @ + 1, !.sessions = @ + 1, !.open = TRUE]
    ELSE IF outcome = "login" THEN [c EXCEPT !.dialed = @ + 1]
    ELSE c

\* Client.Close: with a client set, LOGOUT (its error ignored), then the
\* connection is closed.
Close(c, logoutOk) ==
    IF c.client
    THEN [c EXCEPT !.logout = IF logoutOk THEN "ok" ELSE "failed", !.open = FALSE]
    ELSE c

\* A return that runs the deferred Close only when the handler succeeded.
ReturnClosingOnSuccess(c, res, logoutOk) ==
    [(IF c.deferred /\ res = "ok" THEN Close(c, logoutOk) ELSE c)
        EXCEPT !.pc = "returned", !.res = res]

\* The handler returns res; a registered defer client.Close() runs first.
Return(c, res, logoutOk) ==
    [(IF c.deferred THEN Close(c, logoutOk) ELSE c) EXCEPT !.pc = "returned", !.res = res]

ConnInit ==
    conn \in {[cmd |-> h, pc |-> "start", left |-> n, client |-> FALSE, deferred |-> FALSE,
               dialed |-> 0, sessions |-> 0, open |-> FALSE, logout |-> "none",
               res |-> "none"] : h \in Handlers, n \in 0..MaxWork}

\* The checks before NewClient: configuration, arguments.
Precheck ==
    /\ conn.pc = "start"
    /\ \E ok \in BOOLEAN :
          conn' = IF ok THEN [conn EXCEPT !.pc = "connect"]
                  ELSE Return(conn, "error", TRUE)

\* client.Connect(); on success defer client.Close() is registered
\* (config doctor calls Close itself, right after).
DoConnect ==
    /\ conn.pc = "connect"
    /\ \E outcome \in {"password", "dial", "login", "ok"} :
          LET c == Connect(conn, outcome)
          IN  conn' = IF outcome = "ok" THEN [c EXCEPT !.deferred = TRUE, !.pc = "work"]
                      ELSE Return(c, "error", TRUE)

\* One operation on the session; a failed one makes the handler return.
Work ==
    /\ conn.pc = "work" /\ conn.left > 0
    /\ \E ok \in BOOLEAN, logoutOk \in BOOLEAN :
          conn' = IF ok THEN [conn EXCEPT !.left = @ - 1]
                  ELSE Return(conn, "error", logoutOk)

\* Nothing is left to do: the handler returns nil.
Finish ==
    /\ conn.pc = "work" /\ conn.left = 0
    /\ \E logoutOk \in BOOLEAN : conn' = Return(conn, "ok", logoutOk)

ExtIdle == ComposeIdle /\ HtmlIdle /\ IdemIdle /\ SeqIdle /\ LateIdle

\* ------------------------------------------------------------------------
\* Specifications, one per subsystem
\* ------------------------------------------------------------------------

BatchNext ==
    \/ DoDelete /\ UNCHANGED <<sendVars, mimeVars, bodyVars, searchVars, extVars>>
    \/ DoMove /\ UNCHANGED <<sendVars, mimeVars, bodyVars, searchVars, extVars>>
    \/ DoFlag /\ UNCHANGED <<sendVars, mimeVars, bodyVars, searchVars, extVars>>

InitBatch == BatchInit /\ SendIdle /\ MimeIdle /\ BodyIdle /\ SearchIdle /\ ExtIdle

SpecBatch ==
    /\ InitBatch
    /\ [][BatchNext]_vars

QueryNext ==
    \/ DoDeleteQuery /\ UNCHANGED <<sendVars, mimeVars, bodyVars, searchVars, extVars>>
    \/ DoMoveQuery /\ UNCHANGED <<sendVars, mimeVars, bodyVars, searchVars, extVars>>
    \/ DoFlagQuery /\ UNCHANGED <<sendVars, mimeVars, bodyVars, searchVars, extVars>>

InitQuery == QueryInit /\ SendIdle /\ MimeIdle /\ BodyIdle /\ SearchIdle /\ ExtIdle

SpecQuery ==
    /\ InitQuery
    /\ [][QueryNext]_vars

SendNext == DoSend /\ UNCHANGED <<batchVars, mimeVars, bodyVars, searchVars, extVars>>

InitSend == BatchIdle /\ SendInit /\ MimeIdle /\ BodyIdle /\ SearchIdle /\ ExtIdle

SpecSend ==
    /\ InitSend
    /\ [][SendNext]_vars

MimeNext ==
    \/ DoGetAttachments /\ UNCHANGED <<batchVars, sendVars, bodyVars, searchVars, extVars>>
    \/ DoDownloadAttachment /\ UNCHANGED <<batchVars, sendVars, bodyVars, searchVars, extVars>>
    \/ DoMailDownload /\ UNCHANGED <<batchVars, sendVars, bodyVars, searchVars, extVars>>

InitMime == BatchIdle /\ SendIdle /\ MimeInit /\ BodyIdle /\ SearchIdle /\ ExtIdle

SpecMime ==
    /\ InitMime
    /\ [][MimeNext]_vars

BodyNext == DoParseMessageBody /\ UNCHANGED <<batchVars, sendVars, mimeVars, searchVars, extVars>>

InitBody == BatchIdle /\ SendIdle /\ MimeIdle /\ BodyInit /\ SearchIdle /\ ExtIdle

SpecBody ==
    /\ InitBody
    /\ [][BodyNext]_vars

SearchNext == DoSearch /\ UNCHANGED <<batchVars, sendVars, mimeVars, bodyVars, extVars>>

InitSearch == BatchIdle /\ SendIdle /\ MimeIdle /\ BodyIdle /\ SearchInit /\ ExtIdle

SpecSearch ==
    /\ InitSearch
    /\ [][SearchNext]_vars

InitSearchSizes == BatchIdle /\ SendIdle /\ MimeIdle /\ BodyIdle /\ SearchSizesInit /\ ExtIdle

SpecSearchSizes ==
    /\ InitSearchSizes
    /\ [][SearchNext]_vars

CoreIdle == BatchIdle /\ SendIdle /\ MimeIdle /\ BodyIdle /\ SearchIdle

ComposeNext ==
    \/ DoWriteMessage /\ UNCHANGED <<coreVars, htmlVars, idemVars, seqVars, lateVars>>
    \/ DoResolveComposed /\ UNCHANGED <<coreVars, htmlVars, idemVars, seqVars, lateVars>>

InitCompose == CoreIdle /\ ComposeInit /\ HtmlIdle /\ IdemIdle /\ SeqIdle /\ LateIdle

SpecCompose ==
    /\ InitCompose
    /\ [][ComposeNext]_vars

HtmlNext ==
    \/ DoHtmlToText /\ UNCHANGED <<coreVars, composeVars, idemVars, seqVars, lateVars>>
    \/ DoHtmlToTextAgain /\ UNCHANGED <<coreVars, composeVars, idemVars, seqVars, lateVars>>

InitHtml == CoreIdle /\ ComposeIdle /\ HtmlInit /\ IdemIdle /\ SeqIdle /\ LateIdle

SpecHtml ==
    /\ InitHtml
    /\ [][HtmlNext]_vars

IdemNext ==
    \/ Tick /\ UNCHANGED <<coreVars, composeVars, htmlVars, seqVars, lateVars>>
    \/ DoCheckIdempotencyKey /\ UNCHANGED <<coreVars, composeVars, htmlVars, seqVars, lateVars>>
    \/ DoRecordIdempotencyKey /\ UNCHANGED <<coreVars, composeVars, htmlVars, seqVars, lateVars>>

InitIdem == CoreIdle /\ ComposeIdle /\ HtmlIdle /\ IdemInit /\ SeqIdle /\ LateIdle

SpecIdem ==
    /\ InitIdem
    /\ [][IdemNext]_vars

KeyedSendNext ==
    \/ Tick /\ UNCHANGED <<coreVars, composeVars, htmlVars, seqVars, lateVars>>
    \/ DoMailSendKeyed /\ UNCHANGED <<coreVars, composeVars, htmlVars, seqVars, lateVars>>

SpecKeyedSend ==
    /\ InitIdem
    /\ [][KeyedSendNext]_vars

OtherVars == <<sendVars, mimeVars, bodyVars, searchVars>>

BatchSeqNext ==
    \/ DoDelete /\ UNCHANGED <<OtherVars, extVars>>
    \/ DoMove /\ UNCHANGED <<OtherVars, extVars>>
    \/ NextInvocation /\ UNCHANGED <<OtherVars, composeVars, htmlVars, idemVars, lateVars>>

InitBatchSeq ==
    /\ SeqInit
    /\ SendIdle /\ MimeIdle /\ BodyIdle /\ SearchIdle
    /\ ComposeIdle /\ HtmlIdle /\ IdemIdle /\ LateIdle

SpecBatchSeq ==
    /\ InitBatchSeq
    /\ [][BatchSeqNext]_vars

EarlyExt == <<composeVars, htmlVars, idemVars, seqVars>>

QueryTextNext ==
    \/ DeleteRun /\ UNCHANGED <<OtherVars, EarlyExt, procs, conn, doctor, ctx, book>>
    \/ MoveRun /\ UNCHANGED <<OtherVars, EarlyExt, procs, conn, doctor, ctx, book>>
    \/ FlagRun /\ UNCHANGED <<OtherVars, EarlyExt, procs, conn, doctor, ctx, book>>

InitQueryText ==
    /\ QueryTextInit
    /\ SendIdle /\ MimeIdle /\ BodyIdle /\ SearchIdle
    /\ ComposeIdle /\ HtmlIdle /\ IdemIdle /\ SeqIdle
    /\ RaceIdle /\ ConnIdle /\ DoctorIdle /\ CtxIdle /\ BookIdle

SpecQueryText ==
    /\ InitQueryText
    /\ [][QueryTextNext]_vars


LedgerRaceNext ==
    \/ RaceTick /\ UNCHANGED <<coreVars, composeVars, htmlVars, seqVars,
                               query, conn, doctor, ctx, book>>
    \/ \E p \in Procs :
          /\ ProcCheck(p) \/ ProcSkip(p) \/ ProcRecordLoad(p) \/ ProcRecordSave(p)
          /\ UNCHANGED <<coreVars, composeVars, htmlVars, seqVars,
                         query, conn, doctor, ctx, book>>

InitLedgerRace ==
    /\ CoreIdle /\ ComposeIdle /\ HtmlIdle /\ SeqIdle
    /\ RaceInit
    /\ QueryIdle /\ ConnIdle /\ DoctorIdle /\ CtxIdle /\ BookIdle

SpecLedgerRace ==
    /\ InitLedgerRace
    /\ [][LedgerRaceNext]_vars


NotLate == <<coreVars, composeVars, htmlVars, idemVars, seqVars>>

DoctorNext == DoConfigDoctor /\ UNCHANGED <<NotLate, query, procs, conn, ctx, book>>

InitDoctor ==
    /\ CoreIdle /\ ComposeIdle /\ HtmlIdle /\ IdemIdle /\ SeqIdle
    /\ DoctorInit
    /\ QueryIdle /\ RaceIdle /\ ConnIdle /\ CtxIdle /\ BookIdle

SpecDoctor ==
    /\ InitDoctor
    /\ [][DoctorNext]_vars


ContextNext == DoNewContext /\ UNCHANGED <<NotLate, query, procs, conn, doctor, book>>

InitContext ==
    /\ CoreIdle /\ ComposeIdle /\ HtmlIdle /\ IdemIdle /\ SeqIdle
    /\ CtxInit
    /\ QueryIdle /\ RaceIdle /\ ConnIdle /\ DoctorIdle /\ BookIdle

SpecContext ==
    /\ InitContext
    /\ [][ContextNext]_vars


ContactsNext ==
    \/ DoAdd /\ UNCHANGED <<NotLate, query, procs, conn, doctor, ctx>>
    \/ DoRemove /\ UNCHANGED <<NotLate, query, procs, conn, doctor, ctx>>
    \/ DoUpdate /\ UNCHANGED <<NotLate, query, procs, conn, doctor, ctx>>

InitContacts ==
    /\ CoreIdle /\ ComposeIdle /\ HtmlIdle /\ IdemIdle /\ SeqIdle
    /\ BookInit
    /\ QueryIdle /\ RaceIdle /\ ConnIdle /\ DoctorIdle /\ CtxIdle

SpecContacts ==
    /\ InitContacts
    /\ [][ContactsNext]_vars


SessionNext ==
    \/ Precheck /\ UNCHANGED <<NotLate, query, procs, doctor, ctx, book>>
    \/ DoConnect /\ UNCHANGED <<NotLate, query, procs, doctor, ctx, book>>
    \/ Work /\ UNCHANGED <<NotLate, query, procs, doctor, ctx, book>>
    \/ Finish /\ UNCHANGED <<NotLate, query, procs, doctor, ctx, book>>

InitSession ==
    /\ CoreIdle /\ ComposeIdle /\ HtmlIdle /\ IdemIdle /\ SeqIdle
    /\ ConnInit
    /\ QueryIdle /\ RaceIdle /\ DoctorIdle /\ CtxIdle /\ BookIdle

SpecSession ==
    /\ InitSession
    /\ [][SessionNext]_vars


\* ------------------------------------------------------------------------
\* Properties
\* ------------------------------------------------------------------------

\* A decimal numeral: one or more digits and nothing else.
IsNonNegInt(s) == Len(s) > 0 /\ \A i \in 1..Len(s) : s[i] \in Digits

ServerAcceptedAll == \A i \in 1..Len(log) : log[i].ok

\* C1: when delete, move or flag is given an id list holding an id that is no
\* non-negative integer, the operation fails with the invalid-identifier error
\* and has issued no protocol command: the session log is empty and no message
\* of either mailbox has changed.
C1_InvalidIdFailsBeforeAnyCommand ==
    (bOp # "none" /\ ServerAcceptedAll /\ \E i \in 1..Len(ids) : ~IsNonNegInt(ids[i]))
        => (bResult = "invalid" /\ log = << >> /\ mbox = InitMbox /\ dest = {})

\* The store and copy commands of the log, and the numbers the id list names.
StoreCopyCmds == {i \in 1..Len(log) : log[i].cmd \in {"store", "copy"}}
NamedIds == {SscanUint32(ids[i]).val : i \in 1..Len(ids)}
FlagChanges == Cardinality({k \in {"read", "unread", "star", "unstar"} : bArgs.f[k]})

\* C2: a delete, move or flag over n valid ids issues each store and each copy
\* once, over the sequence set of all n ids: one store for delete, one copy
\* and one store for move, one store per flag change for flag, whatever n is,
\* and no command over a proper subset of the ids.
C2_OneCommandOverAllIds ==
    (bOp # "none" /\ bResult = "ok" /\ \A i \in 1..Len(ids) : IsNonNegInt(ids[i]))
        => /\ \A i \in StoreCopyCmds : log[i].set = NamedIds
           /\ Cardinality(StoreCopyCmds) =
                 (CASE bOp = "delete" -> 1 [] bOp = "move" -> 2 [] bOp = "flag" -> FlagChanges)

BadAttachment(msg) == \E i \in 1..Len(msg.attachments) : msg.attachments[i] # "ok"

\* C3: when an attachment path of the outgoing message cannot be opened or
\* read, the send fails with nothing written to the SMTP DATA stream and the
\* DATA stream never completed.
C3_FailedComposeWritesNothing ==
    (sResult # "none" /\ BadAttachment(sMsg))
        => (sResult = "error" /\ dataStream = << >> /\ ~dataClosed)

\* The part of tree t at the 1-based child positions path.
RECURSIVE NodeAt(_, _)
NodeAt(t, path) == IF path = << >> THEN t ELSE NodeAt(t.children[Head(path)], Tail(path))

RECURSIVE LeafPaths(_)
LeafPaths(t) ==
    IF t.kind = "leaf" THEN {<< >>}
    ELSE UNION {{<<i>> \o q : q \in LeafPaths(t.children[i])} : i \in 1..Len(t.children)}

\* The attachment test as the specification words it.
ClaimedAttachment(l) ==
    \/ l.dfile # "" \/ l.cname # ""
    \/ l.disp = "attachment"
    \/ (l.type # "text" /\ l.disp # "inline")

AttachmentPaths(t) == {q \in LeafPaths(t) : ClaimedAttachment(NodeAt(t, q))}

\* Pre-order is the lexicographic order of the paths (no leaf path is a prefix
\* of another).
RECURSIVE PathBefore(_, _)
PathBefore(a, b) ==
    /\ a # << >> /\ b # << >>
    /\ \/ Head(a) < Head(b)
       \/ (Head(a) = Head(b) /\ PathBefore(Tail(a), Tail(b)))

\* The path of the attachment leaf of pre-order rank i (0-based).
AttachmentPath(t, i) ==
    CHOOSE q \in AttachmentPaths(t) :
        Cardinality({r \in AttachmentPaths(t) : PathBefore(r, q)}) = i

ClaimedName(l, i) ==
    IF l.dfile # "" THEN <<l.dfile>>
    ELSE IF l.cname # "" THEN <<l.cname>>
    ELSE <<"attachment_">> \o Itoa(i)

NumAttachments == Cardinality(AttachmentPaths(bs))

\* C4: the part `download <id> i` saves is the part the attachment listing
\* shows at index i, and an index the listing does not show saves nothing.
C4_DownloadSavesListedPart ==
    mOp = "saved"
        => IF dlIndex \in 0..(Len(listing) - 1)
           THEN cliDl.found /\ cliDl.partNums = AttachmentPath(bs, dlIndex)
           ELSE ~cliDl.found

\* C5: GetAttachments lists the attachment-classified leaves in pre-order with
\* indices 0..n-1 (and each leaf's declared or default filename), and
\* DownloadAttachment(i) finds, for i in 0..n-1, the leaf listed at i by the
\* part path of its 1-based child positions, and nothing for any other i.
C5_WalkerIndexesLocateListedLeaves ==
    /\ mOp # "none" =>
          /\ Len(listing) = NumAttachments
          /\ \A i \in 1..Len(listing) :
                /\ listing[i].Index = i - 1
                /\ listing[i].Filename = ClaimedName(NodeAt(bs, AttachmentPath(bs, i - 1)), i - 1)
                /\ listing[i].ContentType = NodeAt(bs, AttachmentPath(bs, i - 1)).type
    /\ mOp = "fetched" =>
          IF dlIndex \in 0..(NumAttachments - 1)
          THEN /\ dl.found
               /\ dl.partNums = AttachmentPath(bs, dlIndex)
               /\ dl.filename = listing[dlIndex + 1].Filename
          ELSE ~dl.found

\* The second attachment of a message is found inside a nested multipart,
\* after a part that is no attachment.
C5_Witness ==
    /\ mOp = "fetched" /\ dl.found /\ dlIndex = 1
    /\ Len(dl.partNums) = 2
    /\ NumAttachments < Cardinality(LeafPaths(bs))


AllReadable(r) == \A i \in 1..Len(r.parts) : r.parts[i].readOk
PartsOfType(r, ct) == {i \in 1..Len(r.parts) : r.parts[i].ctype = ct}
FirstOfType(r, ct) == CHOOSE i \in PartsOfType(r, ct) : \A j \in PartsOfType(r, ct) : i <= j

\* C6: of several text/plain parts the resolver returns the first as the text
\* body, and of several text/html parts the first as the html body.
C6_FirstMatchingPartWins ==
    (body.done /\ rawMsg.parses /\ rawMsg.errAt = 0 /\ AllReadable(rawMsg))
        => /\ PartsOfType(rawMsg, "text/plain") # {}
                => body.text = rawMsg.parts[FirstOfType(rawMsg, "text/plain")].data
           /\ PartsOfType(rawMsg, "text/html") # {}
                => body.html = rawMsg.parts[FirstOfType(rawMsg, "text/html")].data

\* The messages a search is run against.
Messages ==
    {[body |-> b, date |-> d, size |-> z,
      header |-> ("From" :> f) @@ ("To" :> t) @@ ("Subject" :> su)
                 @@ ("Content-Type" :> ct)] :
        b \in SUBSET {"a", "b"}, d \in {20240101, 20240201, 20240401}, z \in {100, 5000},
        f \in {"f", "-"}, t \in {"t", "-"}, su \in {"s", "-"},
        ct \in {"multipart/mixed", "text/plain"}}


Negated(c) == [NoCriteria EXCEPT !.Not = <<c>>]

\* C7: with negate set the criteria are exactly Not(P), P being the whole
\* predicate the same options build without negate, under either combinator
\* and for every set of options, the empty one included; the search matches
\* the messages P does not match.
C7_NegateIsNotOfWholePredicate ==
    (sRes # "none" /\ opts.Negate)
        => LET P == buildSearchCriteria([opts EXCEPT !.Negate = FALSE])
           IN  /\ criteria = Negated(P)
               /\ \A m \in Messages : Matches(criteria, m) <=> ~Matches(P, m)

\* The dates and sizes the command line documents: YYYY-MM-DD of a real day;
\* digits followed by an optional unit.
IsDateString(s) ==
    /\ Len(s) = 10 /\ s[5] = "-" /\ s[8] = "-"
    /\ \A i \in {1, 2, 3, 4, 6, 7, 9, 10} : s[i] \in Digits
    /\ LET y == 1000 * DigitVal(s[1]) + 100 * DigitVal(s[2]) + 10 * DigitVal(s[3])
                + DigitVal(s[4])
           mo == 10 * DigitVal(s[6]) + DigitVal(s[7])
           d == 10 * DigitVal(s[9]) + DigitVal(s[10])
       IN  mo \in 1..12 /\ d >= 1 /\ d <= DaysIn(y, mo)
DayOf(s) ==
    10000 * (1000 * DigitVal(s[1]) + 100 * DigitVal(s[2]) + 10 * DigitVal(s[3])
             + DigitVal(s[4]))
    + 100 * (10 * DigitVal(s[6]) + DigitVal(s[7]))
    + 10 * DigitVal(s[9]) + DigitVal(s[10])
Units == {<< >>, <<"B">>, <<"K">>, <<"K", "B">>, <<"M">>, <<"M", "B">>, <<"G">>, <<"G", "B">>}
IsSizeString(s) ==
    \E n \in 1..Len(s) :
        /\ \A i \in 1..n : s[i] \in Digits
        /\ ToUpper(SubSeq(s, n + 1, Len(s))) \in Units

\* The filters a command line populates, and what each asks of a message.
FilterKinds ==
    {"Query", "Body", "From", "To", "Subject", "Since", "Before", "HasAttachments",
     "LargerThan", "SmallerThan"}
Populated(f) ==
    {k \in FilterKinds :
        CASE k \in {"Query", "Body", "From", "To", "Subject"} -> f[k] # ""
          [] k \in {"Since", "Before"} -> IsDateString(f[k])
          [] k = "HasAttachments" -> f[k]
          [] OTHER -> IsSizeString(f[k]) /\ parseSize(f[k]) > 0}
\* What each populated filter asks for: a text, a day, a number of bytes.
Asked(f) ==
    [k \in Populated(f) |->
        CASE k \in {"Query", "Body", "From", "To", "Subject"} -> f[k]
          [] k \in {"Since", "Before"} -> DayOf(f[k])
          [] k = "HasAttachments" -> "multipart/mixed"
          [] OTHER -> parseSize(f[k])]
FilterHolds(asked, k, m) ==
    CASE k \in {"Query", "Body"} -> asked[k] \in m.body
      [] k \in {"From", "To", "Subject"} -> m.header[k] = asked[k]
      [] k = "Since" -> m.date >= asked[k]
      [] k = "Before" -> m.date < asked[k]
      [] k = "HasAttachments" -> m.header["Content-Type"] = asked[k]
      [] k = "LargerThan" -> m.size > asked[k]
      [] OTHER -> m.size < asked[k]

\* The predicate under the optional Not.
Root(c) == IF opts.Negate /\ Len(c.Not) = 1 THEN c.Not[1] ELSE c

\* The number of search keys a criteria holds itself, and whether it is one
\* single key.
NumKeys(c) ==
    Len(c.Body) + Len(c.Header) + (IF c.Since # 0 THEN 1 ELSE 0)
    + (IF c.Before # 0 THEN 1 ELSE 0) + (IF c.Larger # 0 THEN 1 ELSE 0)
    + (IF c.Smaller # 0 THEN 1 ELSE 0)
IsLeaf(c) == NumKeys(c) = 1 /\ c.Not = << >> /\ c.Or = << >>

\* The leaves of a right-folded chain Or(a, Or(b, ... Or(y, z))), in order;
\* the empty sequence when the criteria are not such a chain.
RECURSIVE ChainLeaves(_)
ChainLeaves(c) ==
    IF IsLeaf(c) THEN <<c>>
    ELSE IF NumKeys(c) = 0 /\ c.Not = << >> /\ Len(c.Or) = 1 /\ IsLeaf(c.Or[1][1])
         THEN LET rest == ChainLeaves(c.Or[1][2])
              IN  IF rest # << >> THEN <<c.Or[1][1]>> \o rest ELSE << >>
         ELSE << >>

\* Right fold of a non-empty list of predicates in a given order.
RECURSIVE FoldOr(_, _, _)
FoldOr(list, perm, i) ==
    IF i = Len(list) THEN list[perm[i]]
    ELSE [NoCriteria EXCEPT !.Or = <<<<list[perm[i]], FoldOr(list, perm, i + 1)>>>>]
Perms(n) == {p \in [1..n -> 1..n] : \A i, j \in 1..n : p[i] = p[j] => i = j}
Reversal(n) == [i \in 1..n |-> n + 1 - i]
MaxPermuted == 3

\* C8: under OR with k >= 2 populated filters the predicate is a right-folded
\* chain of Or over exactly k leaves; a search the server answers matches a
\* message iff some filter holds of it, and folding the leaves in another
\* order matches the same messages.
C8_OrChainIsDisjunction ==
    (sRes = "ok" /\ opts.UseOr /\ Cardinality(Populated(flags)) >= 2)
        => LET asked == Asked(flags)
               pop == DOMAIN asked
               k == Cardinality(pop)
               root == Root(criteria)
               leaves == ChainLeaves(root)
               matched == {m \in Messages : Matches(root, m)}
               MatchedBy(p) == LET c == FoldOr(leaves, p, 1)
                               IN  {m \in Messages : Matches(c, m)}
           IN  /\ opts.Negate => criteria = Negated(root)
               /\ Len(leaves) = k
               /\ matched = {m \in Messages : \E f \in pop : FilterHolds(asked, f, m)}
               /\ MatchedBy(Reversal(k)) = matched
               /\ k <= MaxPermuted => \A p \in Perms(k) : MatchedBy(p) = matched

C8_Witness ==
    /\ sRes = "ok" /\ opts.UseOr /\ ~opts.Negate
    /\ Cardinality(Populated(flags)) = 3
    /\ Len(criteria.Or) = 1 /\ Len(criteria.Or[1][2].Or) = 1
    /\ \E m \in Messages : Matches(criteria, m) /\ ~Matches(criteria.Or[1][1], m)

\* C9: under AND with k populated filters the predicate is one root holding
\* exactly k leaves directly (no Or, no nested Not); Query and Body together
\* give two Body leaves, the query first; it matches a message iff every
\* filter holds of it.
C9_AndIsFlatConjunction ==
    (sRes # "none" /\ ~opts.UseOr)
        => LET asked == Asked(flags)
               pop == DOMAIN asked
               root == Root(criteria)
           IN  /\ opts.Negate => criteria = Negated(root)
               /\ root.Not = << >> /\ root.Or = << >>
               /\ NumKeys(root) = Cardinality(pop)
               /\ (flags.Query # "" /\ flags.Body # "")
                    => root.Body = <<flags.Query, flags.Body>>
               /\ \A m \in Messages :
                    Matches(root, m) <=> \A f \in pop : FilterHolds(asked, f, m)

C9_Witness ==
    /\ sRes = "ok" /\ ~opts.UseOr /\ ~opts.Negate
    /\ Len(criteria.Body) = 2 /\ criteria.Since # 0 /\ criteria.Larger # 0
    /\ NumKeys(criteria) >= 4
    /\ \E m \in Messages : Matches(criteria, m)

\* The command line with every filter that is not populated left out.
OnlyPopulated(f) ==
    [k \in DOMAIN f |->
        IF k \in FilterKinds \ Populated(f) THEN NoSearchFlags[k] ELSE f[k]]

\* C10: a date or size string that does not parse contributes no leaf and
\* leaves the other filters as they are: the criteria are those of the
\* command line without it.
C10_UnparsableFilterIsDropped ==
    sRes # "none" => criteria = buildSearchCriteria(SearchOptionsOf(OnlyPopulated(flags)))

\* The searches of the log the server answered with no sequence number.
EmptySearches == {i \in 1..Len(log) : log[i].cmd = "search" /\ log[i].ok /\ log[i].set = {}}

\* C11: a query-based delete, move or flag whose search returns no sequence
\* number ends with the successful "no matches" result and has issued no
\* store, copy or expunge: both mailboxes are as they were.
C11_EmptySearchIsNoMatches ==
    (bOp \in {"delete-query", "move-query", "flag-query"} /\ EmptySearches # {})
        => /\ bResult = "no-matches"
           /\ \A i \in 1..Len(log) : log[i].cmd \notin {"store", "copy", "expunge"}
           /\ mbox = InitMbox /\ dest = {}

C11_Witness ==
    /\ bOp = "move-query" /\ EmptySearches # {} /\ bResult = "no-matches"
    /\ Len(log) = 2

\* What a resolved body can be: nothing, a part's decoded data, the input
\* after its headers, the whole input.
BodyTexts == {"", "A", "B", "AFTER-HEADERS", "RAW"}

\* C12: the body resolver is total: it can run on every raw message, its
\* result is a pair of texts and nothing else, and on input the structured
\* MIME parse rejects the pair is (the whole raw input, "").
C12_ResolverIsTotal ==
    /\ ~body.done => ENABLED DoParseMessageBody
    /\ body.done => body.text \in BodyTexts /\ body.html \in BodyTexts
    /\ (body.done /\ ~rawMsg.parses) => (body.text = "RAW" /\ body.html = "")

C12_Witness == body.done /\ ~rawMsg.parses /\ body.text = "RAW" /\ body.html = ""

\* ---- Composition ----

IndexOf(s, x) == CHOOSE i \in 1..Len(s) : s[i] = x /\ \A j \in 1..(i - 1) : s[j] # x

\* The value of the Subject header line of a composed stream: what stands
\* between "Subject: " and the line break before the Date header.
SubjectValue(stream) ==
    SubSeq(stream, IndexOf(stream, "Subject: ") + 1, IndexOf(stream, "Date: now") - 3)

AboveAscii(subject) == \E i \in 1..Len(subject) : CodePoint(subject[i]) > 127
EncodedWordStart == <<"=", "?", "u", "t", "f", "-", "8", "?">>

\* C16: the Subject header value of a composed message begins with =?utf-8?
\* exactly when the subject holds a code point above U+007F, and is the subject
\* itself, character for character, when it holds none (the empty subject
\* included).
C16_SubjectEncodedIffAboveAscii ==
    (cOut.done /\ cOut.err = "") =>
        LET value == SubjectValue(cOut.stream)
        IN  /\ HasPrefix(value, EncodedWordStart) <=> AboveAscii(cMsg.Subject)
            /\ ~AboveAscii(cMsg.Subject) => value = cMsg.Subject

\* A subject whose only character outside printable ASCII is U+0080 has been
\* composed into one encoded word.
C16_Witness ==
    /\ cOut.done /\ cOut.err = ""
    /\ cMsg.Subject = <<"a", "U+0080">>
    /\ SubjectValue(cOut.stream) = EncodedWordStart \o <<"q", "?", "a", "=", "C", "2", "=", "8", "0", "?", "=">>

\* The k-th smallest member of a set of numbers.
Nth(S, k) == CHOOSE x \in S : Cardinality({y \in S : y < x}) = k - 1

\* Where the delimiter lines of the parts stand in a multipart stream, and the
\* body of its k-th part: what lies between the blank line after the part's
\* headers and the line break before the next delimiter.
Delimiters(stream) == {i \in 1..Len(stream) : stream[i] = "--boundary"}
PartBody(stream, k) ==
    LET start == Nth(Delimiters(stream), k)
        blank == {i \in start..(Len(stream) - 3) : SubSeq(stream, i, i + 3) = CRLF \o CRLF}
        next == {j \in (start + 1)..Len(stream) : stream[j] \in {"--boundary", "--boundary--"}}
    IN  SubSeq(stream, Nth(blank, 1) + 4, Nth(next, 1) - 3)

\* The lines of a part body, split at its line breaks.
LinesOf(b) ==
    LET breaks == {i \in 1..(Len(b) - 1) : b[i] = "\r" /\ b[i + 1] = "\n"}
        n == Cardinality(breaks) + 1
    IN  [k \in 1..n |->
            SubSeq(b, (IF k = 1 THEN 1 ELSE Nth(breaks, k - 1) + 2),
                      (IF k = n THEN Len(b) ELSE Nth(breaks, k) - 1))]
Unbroken(b) == SelectSeq(b, LAMBDA c : c \notin {"\r", "\n"})

\* C15: when a message with attachments is composed without error, each
\* attachment's base64 body is made of lines of at most 76 characters, all but
\* the last of exactly 76, which joined give the base64 encoding of the file;
\* the stream has one text part and one part per attachment and ends with the
\* closing boundary line.
C15_Base64WrappedAt76 ==
    (cOut.done /\ cOut.err = "" /\ Len(cMsg.Attachments) > 0) =>
        /\ Cardinality(Delimiters(cOut.stream)) = 1 + Len(cMsg.Attachments)
        /\ PartBody(cOut.stream, 1) = cMsg.Body
        /\ HasSuffix(cOut.stream, CRLF \o <<"--boundary--">> \o CRLF)
        /\ \A k \in 1..Len(cMsg.Attachments) :
              LET b == PartBody(cOut.stream, k + 1)
                  lines == LinesOf(b)
              IN  /\ \A i \in 1..Len(lines) :
                        /\ Len(lines[i]) <= 76
                        /\ i < Len(lines) => Len(lines[i]) = 76
                  /\ Unbroken(b) = EncodeToString(cMsg.Attachments[k].content, 1)

\* A file whose encoding fills two lines and begins a third has been attached.
C15_Witness ==
    /\ cOut.done /\ cOut.err = "" /\ Len(cMsg.Attachments) = 1
    /\ Len(cMsg.Attachments[1].content) = 115
    /\ Len(LinesOf(PartBody(cOut.stream, 2))) = 3

\* C14: every line of a composed stream ends in CRLF: no line feed stands in
\* the stream without a carriage return right before it, whatever line breaks
\* the body holds.
C14_EveryLineEndsInCRLF ==
    (cOut.done /\ cOut.err = "") =>
        \A i \in 1..Len(cOut.stream) :
            cOut.stream[i] = "\n" => (i > 1 /\ cOut.stream[i - 1] = "\r")

\* C13: a message composed without attachments and resolved again gives back
\* its body text character for character, and no HTML body.
C13_ComposeThenResolveIsIdentity ==
    cRes.done => (cRes.text = cMsg.Body /\ cRes.html = << >>)

\* ---- HTML to text ----

\* C17: converting a text that the converter produced changes nothing:
\* htmlToText(htmlToText(x)) = htmlToText(x) for every x.
C17_HtmlToTextIsIdempotent ==
    hStep = 2 => hTwice = hOnce

\* C18: a paragraph <p>A</p> immediately followed by a link <a href="U">T</a>
\* converts to the entity-decoded text of A, two line feeds, then "T [U]"; the
\* example of the specification converts to "Hello & World\n\nLink [https://x.com]".
C18_ParagraphThenLink ==
    hStep >= 1 =>
        /\ \A a \in ParagraphTexts, u \in Urls, t \in LinkTexts :
              hIn = ParagraphLink(a.html, u, t) =>
                  hOnce = a.text \o <<"\n", "\n">> \o t \o <<" ", "[">> \o u \o <<"]">>
        /\ hIn = SpecExample => hOnce = SpecExampleText

\* ---- Idempotency ----

\* C19: of two invocations of mail send with the same non-empty idempotency key
\* no more than 24 hours apart, the first having sent, the second hands nothing
\* to SMTP and reports the duplicate as a success of its own kind.
C19_DuplicateSendSuppressed ==
    \A i \in DOMAIN sends, j \in DOMAIN sends :
        (/\ i < j
         /\ sends[i].key # "" /\ sends[i].key = sends[j].key
         /\ sends[i].res = "sent"
         /\ sends[j].at - sends[i].at <= idempotencyTTL)
        => (~sends[j].handed /\ sends[j].res = "duplicate")

\* C20: a check answers "used" exactly for a non-empty key whose last record
\* is no more than 24 hours old, whatever was recorded or purged since; a key
\* never recorded and the empty key are never "used".
C20_UsedExactlyWithinTTL ==
    lastCheck.done =>
        (lastCheck.used <=>
            /\ lastCheck.key # ""
            /\ lastCheck.recorded >= 0
            /\ lastCheck.at - lastCheck.recorded <= idempotencyTTL)

\* k1 was checked exactly 24 hours after its record and found used, k2 having
\* been recorded in between.
C20_Witness ==
    /\ lastCheck.done /\ lastCheck.key = "k1" /\ lastCheck.used
    /\ lastCheck.at - lastCheck.recorded = idempotencyTTL
    /\ recordedAt["k1"] = lastCheck.recorded
    /\ recordedAt["k2"] > recordedAt["k1"] /\ recordedAt["k2"] < lastCheck.at

\* ---- Batch operations, continued ----

IsPrefixOf(s, t) == Len(s) <= Len(t) /\ s = SubSeq(t, 1, Len(s))
Uids(mb) == {mb[i].uid : i \in 1..Len(mb)}
CopyFailed == \E i \in 1..Len(log) : log[i].cmd = "copy" /\ ~log[i].ok

\* C25: a move issues copy, store +\Deleted, expunge in this order after the
\* select, each only when every command before it succeeded; when the copy
\* fails the source mailbox is left as it was, and whether the move fails or
\* not every message is still in the source mailbox or in the destination.
C25_MoveCopiesBeforeItDeletes ==
    bOp = "move" =>
        /\ IsPrefixOf([i \in 1..Len(log) |-> log[i].cmd],
                      <<"select", "copy", "store", "expunge">>)
        /\ \A i \in 1..(Len(log) - 1) : log[i].ok
        /\ CopyFailed => (mbox = InitMbox /\ dest = {})
        /\ Uids(InitMbox) \subseteq (Uids(mbox) \cup dest)

\* A move whose copy the server refused.
C25_Witness ==
    /\ bOp = "move" /\ bResult = "error" /\ CopyFailed
    /\ Len(log) = 2 /\ mbox = InitMbox

\* The messages the running invocation removed from the source mailbox for
\* good, and the messages its id list names.
Removed == Uids(prevMbox) \ Uids(mbox)
NamedMessages == {prevMbox[i].uid : i \in NamedIds \cap (1..Len(prevMbox))}

\* C26: whatever deletes and moves came before, a move or a permanent delete
\* of an id list removes from the source mailbox only messages the list
\* names; a message that an earlier delete only flagged \Deleted stays.
C26_OnlyNamedMessagesAreRemoved ==
    (bOp = "move" \/ (bOp = "delete" /\ bArgs.permanent)) => Removed \subseteq NamedMessages

\* The messages the command changed: gone from the mailbox, flagged
\* otherwise than before, or copied to the destination.
Changed ==
    {u \in Uids(InitMbox) :
        \/ u \notin Uids(mbox)
        \/ u \in dest
        \/ \E i \in 1..Len(mbox) : mbox[i].uid = u /\ mbox[i].flags # {}}

\* The non-empty filters parsed from the query, and the messages matching
\* at least one of them.
QueryFilters ==
    LET o == parseQueryToSearchOptions(query)
    IN  (IF o.From # "" THEN {HeaderField("From", o.From)} ELSE {})
        \cup (IF o.Subject # "" THEN {HeaderField("Subject", o.Subject)} ELSE {})
        \cup (IF o.Query # "" THEN {HeaderField("Body", o.Query)} ELSE {})
MatchesFilter(m, f) ==
    IF f.Key = "Body" THEN f.Value \in m.body ELSE m.header[f.Key] = f.Value
MatchingSomeFilter ==
    {u \in Uids(InitMbox) : \E f \in QueryFilters : MatchesFilter(MailboxMessage(u), f)}

\* C27: a delete, move or flag run with a query changes only messages that
\* match at least one non-empty filter parsed from the query; a query that
\* yields no non-empty filter (spaces only, an empty quoted string) changes
\* no message.
C27_QueryChangesOnlyMatchingMessages ==
    (bOp # "none" /\ query # << >>) => Changed \subseteq MatchingSomeFilter

C27_BlankQueryChangesEveryMessage ==
    /\ bOp = "delete" /\ bResult = "ok"
    /\ query = <<" ">>
    /\ QueryFilters = {}
    /\ Changed = Uids(InitMbox)

BccLists == {m.bcc : m \in OutgoingMessages}
Addresses == UNION {Range(m.to) \cup Range(m.cc) \cup Range(m.bcc) : m \in OutgoingMessages}
RcptAccepted(a) == \E i \in 1..Len(smtpLog) :
                      smtpLog[i].step = "RCPT" /\ smtpLog[i].arg = a /\ smtpLog[i].ok

\* C28: the stream written to DATA does not depend on Bcc: the same message
\* with any other Bcc list composes to the same stream, and no address that
\* is only a Bcc recipient appears in it; yet a Send that succeeds has had
\* RCPT accepted for every To, Cc and Bcc address.
C28_StreamIndependentOfBcc ==
    /\ dataClosed
         => /\ \A b \in BccLists : writeMessage([sMsg EXCEPT !.bcc = b]).out = dataStream
            /\ Range(dataStream) \cap Addresses \subseteq Range(sMsg.to) \cup Range(sMsg.cc)
    /\ sResult = "ok"
         => \A a \in Range(sMsg.to) \cup Range(sMsg.cc) \cup Range(sMsg.bcc) : RcptAccepted(a)

C28_Witness ==
    /\ sResult = "ok" /\ dataClosed
    /\ sMsg.bcc # << >>
    /\ \A a \in Range(sMsg.bcc) : RcptAccepted(a) /\ a \notin Range(dataStream)
    /\ Range(sMsg.to) \subseteq Range(dataStream)

\* The steps of a complete Send, in order, for the message being sent.
FullSession ==
    LET rcpts == sMsg.to \o sMsg.cc \o sMsg.bcc
    IN  <<[step |-> "HELLO", arg |-> ""], [step |-> "AUTH", arg |-> ""],
          [step |-> "MAIL", arg |-> ""]>>
        \o [i \in 1..Len(rcpts) |-> [step |-> "RCPT", arg |-> rcpts[i]]]
        \o <<[step |-> "DATA", arg |-> ""], [step |-> "ENDDATA", arg |-> ""],
             [step |-> "QUIT", arg |-> ""]>>
StepsIssued == [i \in 1..Len(smtpLog) |-> [step |-> smtpLog[i].step, arg |-> smtpLog[i].arg]]
Issued(name) == \E i \in 1..Len(smtpLog) : smtpLog[i].step = name
Rejected(name) == \E i \in 1..Len(smtpLog) : smtpLog[i].step = name /\ ~smtpLog[i].ok

\* C29: Send issues AUTH, MAIL FROM, one RCPT TO per recipient, DATA and
\* QUIT in that order, each once and only after every step before it
\* succeeded, so DATA is reached only when authentication, MAIL and every
\* RCPT were accepted; a rejected recipient ends the Send with an error
\* before DATA, the message reaching nobody; no failed step is issued again.
C29_SendStepsInOrder ==
    /\ IsPrefixOf(StepsIssued, FullSession)
    /\ \A i \in 1..(Len(smtpLog) - 1) : smtpLog[i].ok
    /\ Issued("DATA")
         => \A a \in Range(sMsg.to) \cup Range(sMsg.cc) \cup Range(sMsg.bcc) : RcptAccepted(a)
    /\ Rejected("RCPT")
         => /\ sResult = "error"
            /\ ~Issued("DATA") /\ dataStream = << >> /\ ~dataClosed
    /\ sResult = "ok" => StepsIssued = FullSession

C29_Witness ==
    /\ Rejected("RCPT")
    /\ \E a \in Range(sMsg.to) : RcptAccepted(a)
    /\ sResult = "error"
    /\ ~Issued("DATA")

BothChecked(p, q, k) ==
    /\ p # q
    /\ procs[p].pc # "start" /\ procs[q].pc # "start"
    /\ procs[p].key = k /\ procs[q].key = k
    /\ procs[p].clean /\ procs[q].clean

\* C21: check-then-record is not atomic across processes: of two processes
\* that call CheckIdempotencyKey with the same key before any process has
\* recorded it, both are told the key is not used; nothing in the check
\* keeps the second one out.
C21_BothProcessesSeeKeyUnused ==
    \A p, q \in Procs : \A k \in IdemKeys :
        BothChecked(p, q, k) => (~procs[p].used /\ ~procs[q].used)

\* Both processes went on to record the key they were both told was unused.
C21_Witness ==
    \E p, q \in Procs : \E k \in IdemKeys :
        /\ BothChecked(p, q, k)
        /\ ~procs[p].used /\ ~procs[q].used
        /\ procs[p].pc = "done" /\ procs[q].pc = "done"

LastCheck == doctor.checks[Len(doctor.checks)]

\* C23: when the SMTP port probe of check 6 fails, check 8 "SMTP connection
\* succeeds" is reported as failed with the message "cannot test - SMTP port
\* not reachable", no SMTP dial or authentication is attempted, and the
\* command returns without error.
C23_SMTPCheckSkippedWhenPortUnreachable ==
    (doctor.done /\ ~doctor.env.smtpPort)
        => /\ LastCheck = Check("SMTP connection succeeds", "fail",
                                "cannot test - SMTP port not reachable")
           /\ ~doctor.dialed
           /\ doctor.err = ""

C23_DialedAlthoughPortUnreachable ==
    /\ doctor.done /\ ~doctor.env.smtpPort
    /\ doctor.env.hasEmail /\ doctor.env.hasPassword
    /\ doctor.dialed
    /\ LastCheck = Check("SMTP connection succeeds", "fail", "dial error")

NoPathNoFile == ctx.globals.Config = "" /\ ctx.files.default \in {"absent", "nodir"}
GivenFileUnloadable == ctx.globals.Config # "" /\ ctx.files.given # "valid"

\* C24: for every Globals value NewContext returns no error and a Context
\* whose Config is not nil; with no config path given and no config file
\* there, or with a given file that cannot be loaded, Config is the default
\* configuration.
C24_ContextAlwaysHasConfig ==
    ctx.done
        => /\ ctx.err = ""
           /\ ctx.config # "nil"
           /\ (NoPathNoFile \/ GivenFileUnloadable) => ctx.config = "default"

C24_NilConfigWithoutFile ==
    /\ ctx.done
    /\ NoPathNoFile
    /\ ctx.err = ""
    /\ ctx.config = "nil"

\* The argument names a contact of the store it was called on, whatever its
\* letter case and the spaces around it.
ArgPresent == \E i \in 1..Len(book.before) : EqualFold(book.before[i].Email, TrimSpace(book.arg))

\* C30: starting from a store without duplicates, after any sequence of Add,
\* Remove and Update no two contacts have emails equal up to letter case; an
\* Add of an email already present, in any case or with spaces around it, is
\* rejected and leaves the list as it was; a Remove or Update of an email
\* that is not present fails and leaves the list as it was.
C30_NoDuplicateContacts ==
    /\ WithoutDuplicates(book.contacts)
    /\ (book.op = "add" /\ ArgPresent)
         => (book.err = "already exists" /\ book.contacts = book.before)
    /\ (book.op \in {"remove", "update"} /\ ~ArgPresent)
         => (book.err = "not found" /\ book.contacts = book.before)

C30_Witness ==
    /\ book.op = "add" /\ book.arg = <<"A", " ">>
    /\ \E i \in 1..Len(book.before) : book.before[i].Email = <<"a">>
    /\ book.err = "already exists"
    /\ Len(book.contacts) = 3

\* C22: a command handler opens at most one IMAP session per invocation,
\* and once Connect has succeeded the session is logged out and closed
\* before the handler returns, whether it returns nil or the error of one of
\* the operations in between.
C22_OneSessionClosedOnReturn ==
    /\ conn.sessions <= 1
    /\ conn.pc = "returned"
         => /\ ~conn.open
            /\ conn.sessions = 1 => conn.logout # "none"

C22_Witness ==
    /\ conn.pc = "returned" /\ conn.res = "error"
    /\ conn.sessions = 1
    /\ conn.left > 0
    /\ ~conn.open /\ conn.logout = "ok"

============================================================================
